---- MODULE Spec2Model ----
(***************************************************************************)
(* MR-Frequency-Sculptor: the k-space transform / filter / reconstruction  *)
(* pipeline, its quality metrics, the analysis step and the GUI worker.    *)
(*                                                                         *)
(* Numbers are exact.  A complex number is an element of the cyclotomic    *)
(* ring Z[z], z = exp(2*pi*i/12), written <<a0,a1,a2,a3>> for              *)
(* a0 + a1 z + a2 z^2 + a3 z^3 (z^4 = z^2 - 1, i = z^3); this ring holds   *)
(* the n-th roots of unity the DFT needs for every n dividing 12.  A       *)
(* Gaussian weight exp(-q), q a non-negative rational, is kept symbolic:   *)
(* a value is a finite sum of terms coef * exp(-q), a set of <<q, coef>>   *)
(* with distinct q and non-zero coef (exponentials of distinct rationals   *)
(* are linearly independent over the algebraic numbers, so the form is     *)
(* canonical).  A magnitude |y| is kept as its square.  Floating-point     *)
(* rounding is outside the model.                                          *)
(***************************************************************************)
EXTENDS Integers, Sequences, FiniteSets, TLC

VARIABLES
    pc,         \* position of the run under way
    image,      \* transform: the spatial-domain input image
    spectrum,   \* transform: fft2(image), before the centering shift
    kspace,     \* transform: the centered frequency array
    unshifted,  \* transform: ifftshift(kspace) inside the reconstruction
    recon,      \* transform: the reconstructed magnitude image
    fraction,           \* filters: the partial-sampling fraction, <<n, d>>
    sigma_fraction,     \* filters: the Gaussian sigma fraction, <<n, d>>
    mask,               \* filters: gaussian_kspace_mask(kspace.shape, sigma_fraction)
    partial_kspace,     \* filters: simulate_partial_kspace(kspace, fraction)
    lowpass_kspace,     \* filters: apply_lowpass_filter(kspace, sigma_fraction)
    highpass_kspace,    \* filters: apply_highpass_filter(kspace, sigma_fraction)
    heap,       \* objects: array id -> array value
    heap0,      \* objects: the heap as it was before the call
    arg_img,    \* normalize_by_reference: the id of the array passed as img
    arg_ref_max,\* normalize_by_reference: the scalar passed as ref_max
    ret,        \* normalize_by_reference: the id of the array returned
    img1,       \* calculate_mae: first argument
    img2,       \* calculate_mae: second argument
    mae,        \* calculate_mae: what the call produced
    corner_frac,    \* calculate_noise: the corner fraction passed
    noise,          \* calculate_noise: what the call produced
    prefix,         \* pipeline: the dataset prefix
    full_max,       \* reconstruct_all_versions: the reference maximum
    raws,           \* reconstruct_all_versions: full_raw, partial_raw, ...
    imgs,           \* reconstruct_all_versions: full_img, partial_img, ...
    files,          \* the files under the results directories
    analysis,       \* analyze_dataset: the branch it took
    metrics_data,   \* analyze_dataset: the metric records
    mae_calls,      \* the calls of calculate_mae made, as <<caller, variant>>
    invoked,        \* prefix -> the k-space its latest invocation was given
    current_image,  \* GUI: the loaded image
    current_kspace, \* GUI: its frequency array
    result_raw,     \* ProcessingThread.run: result before normalization
    emitted,        \* ProcessingThread.run: the dict sent with finished
    processing_threads, \* GUI: the ProcessingThread objects started
    signals,        \* GUI: finished / error signals queued for the main thread
    reconstructions,\* GUI: processing type -> the image last delivered
    stack,          \* window: the handlers of the main thread that are inside processEvents()
    progress_bar,   \* window: progress_bar.isVisible()
    display,        \* window: what the reconstruction, error and metrics panels show
    accepted,       \* window: closeEvent has accepted the close
    partial_spinbox,\* window: partial_spinbox.value()
    sigma_spinbox   \* window: sigma_spinbox.value()

transformVars == <<image, spectrum, unshifted, recon>>
filterVars == <<fraction, sigma_fraction, mask, partial_kspace, lowpass_kspace,
                highpass_kspace>>
callVars == <<heap, heap0, arg_img, arg_ref_max, ret>>
metricVars == <<img1, img2, mae, corner_frac, noise>>
pipeVars ==
    <<prefix, full_max, raws, imgs, files, analysis, metrics_data, mae_calls, invoked>>
guiVars ==
    <<current_image, current_kspace, result_raw, emitted, processing_threads, signals,
      reconstructions>>
windowVars == <<stack, progress_bar, display, accepted, partial_spinbox, sigma_spinbox>>
vars ==
    <<pc, kspace, transformVars, filterVars, callVars, metricVars, pipeVars, guiVars,
      windowVars>>

MaxDim == 4     \* largest height / width of an array
MaxVal == 1     \* largest real / imaginary part of an input sample
MaxDen == 4     \* largest denominator of a partial-sampling fraction
MaxSigma == 2   \* largest whole-number sigma fraction
MaxThreads == 1 \* most ProcessingThread objects started in one run of the GUI
MaxRef == 3     \* largest reference maximum passed to normalize_by_reference

None == "none"

-----------------------------------------------------------------------------
(* Exact complex arithmetic: the ring Z[z], z a primitive 12th root of 1.  *)

RZero == <<0, 0, 0, 0>>
ROne == <<1, 0, 0, 0>>
Complex(re, im) == <<re, 0, 0, im>>
RAdd(a, b) == <<a[1] + b[1], a[2] + b[2], a[3] + b[3], a[4] + b[4]>>
RScale(n, a) == <<n * a[1], n * a[2], n * a[3], n * a[4]>>
RMulZeta(a) == <<-a[4], a[1], a[2] + a[4], a[3]>>

RECURSIVE RMulZetaPow(_, _)
RMulZetaPow(a, k) == IF k = 0 THEN a ELSE RMulZetaPow(RMulZeta(a), k - 1)

RMul(a, b) ==
    RAdd(RAdd(RScale(a[1], b), RScale(a[2], RMulZetaPow(b, 1))),
         RAdd(RScale(a[3], RMulZetaPow(b, 2)), RScale(a[4], RMulZetaPow(b, 3))))

\* complex conjugate: z^k goes to z^(12-k)
RConj(a) ==
    RAdd(RAdd(RScale(a[1], ROne), RScale(a[2], RMulZetaPow(ROne, 11))),
         RAdd(RScale(a[3], RMulZetaPow(ROne, 10)), RScale(a[4], RMulZetaPow(ROne, 9))))

\* a real element is p + q*sqrt(3) with p = a0, q = -a3 (a2 = 0, a1 = -2 a3)
RIsReal(a) == a[3] = 0 /\ a[2] = -2 * a[4]
RSign(a) ==
    LET p == a[1]
        q == -a[4]
    IN  IF p = 0 /\ q = 0 THEN 0
        ELSE IF p >= 0 /\ q >= 0 THEN 1
        ELSE IF p <= 0 /\ q <= 0 THEN -1
        ELSE IF p > 0 THEN (IF p * p >= 3 * q * q THEN 1 ELSE -1)
        ELSE (IF 3 * q * q >= p * p THEN 1 ELSE -1)

-----------------------------------------------------------------------------
(* Non-negative rationals <<n, d>> in lowest terms: the exponents q.       *)

RECURSIVE Gcd(_, _)
Gcd(a, b) == IF b = 0 THEN a ELSE Gcd(b, a % b)
QNorm(n, d) == IF n = 0 THEN <<0, 1>> ELSE <<n \div Gcd(n, d), d \div Gcd(n, d)>>
QZero == <<0, 1>>
QAdd(p, q) == QNorm(p[1] * q[2] + q[1] * p[2], p[2] * q[2])
QLess(p, q) == p[1] * q[2] < q[1] * p[2]

-----------------------------------------------------------------------------
(* Values: finite sums of coef * exp(-q).                                  *)

EZero == {}
EConst(c) == IF c = RZero THEN {} ELSE {<<QZero, c>>}
EInt(n) == EConst(Complex(n, 0))
ECoef(e, k) == IF \E t \in e : t[1] = k THEN (CHOOSE t \in e : t[1] = k)[2] ELSE RZero
EAdd(a, b) ==
    LET keys == {t[1] : t \in a \cup b}
    IN  {t \in {<<k, RAdd(ECoef(a, k), ECoef(b, k))>> : k \in keys} : t[2] # RZero}
EScale(n, a) == IF n = 0 THEN {} ELSE {<<t[1], RScale(n, t[2])>> : t \in a}
ENeg(a) == EScale(-1, a)
EMulRoot(a, k) == {<<t[1], RMulZetaPow(t[2], k)>> : t \in a}
EMulConst(c, a) == {t \in {<<s[1], RMul(c, s[2])>> : s \in a} : t[2] # RZero}
EMulExp(a, q) == {<<QAdd(t[1], q), t[2]>> : t \in a}
EConj(a) == {<<t[1], RConj(t[2])>> : t \in a}

RECURSIVE ESumSet(_)
ESumSet(S) ==
    IF S = {} THEN {}
    ELSE LET x == CHOOSE y \in S : TRUE IN EAdd(x[2], ESumSet(S \ {x}))

RECURSIVE RSumSet(_)
RSumSet(S) ==
    IF S = {} THEN RZero
    ELSE LET x == CHOOSE y \in S : TRUE IN RAdd(x[2], RSumSet(S \ {x}))

\* product: every pair of terms, exponents added, one sum per exponent
EMul(a, b) ==
    LET keys == {QAdd(s[1], t[1]) : s \in a, t \in b}
        coef(k) == RSumSet({<<<<s, t>>, RMul(s[2], t[2])>> :
                              <<s, t>> \in {u \in a \X b : QAdd(u[1][1], u[2][1]) = k}})
    IN  {v \in {<<k, coef(k)>> : k \in keys} : v[2] # RZero}
ENormSq(a) == EMul(a, EConj(a))

-----------------------------------------------------------------------------
(* Arrays: [h, w, den, a]; the cell at <<r, c>> is a[<<r, c>>] / den.      *)

Cells(h, w) == (0 .. h - 1) \X (0 .. w - 1)
Arr(h, w, den, f) == [h |-> h, w |-> w, den |-> den, a |-> f]

\* np.roll by (sr, sc): the element at index i moves to (i + s) mod n
Roll(A, sr, sc) ==
    [A EXCEPT !.a = [p \in Cells(A.h, A.w) |->
        A.a[<<(p[1] + A.h - (sr % A.h)) % A.h, (p[2] + A.w - (sc % A.w)) % A.w>>]]]

\* scipy.fft.fftshift: roll every axis by n // 2
FftShift(A) == Roll(A, A.h \div 2, A.w \div 2)
\* the un-shift with the forward rule's sign: right only for even sizes
IfftShiftSameSign(A) == Roll(A, A.h \div 2, A.w \div 2)
\* scipy.fft.ifftshift: roll every axis by -(n // 2)
IfftShift(A) == Roll(A, A.h - (A.h \div 2), A.w - (A.w \div 2))

\* exponent of z for exp(sign * 2 pi i k m / n)
Twiddle(n, k, m, sign) ==
    LET e == ((12 \div n) * k * m) % 12
    IN  IF sign > 0 THEN e ELSE (12 - e) % 12

RECURSIVE DftSum(_, _, _, _, _)
DftSum(v, n, k, sign, m) ==
    IF m = n THEN EZero
    ELSE EAdd(EMulRoot(v[m], Twiddle(n, k, m, sign)), DftSum(v, n, k, sign, m + 1))

DftAxis0(A, sign) ==
    [A EXCEPT !.a = [p \in Cells(A.h, A.w) |->
        DftSum([m \in 0 .. A.h - 1 |-> A.a[<<m, p[2]>>]], A.h, p[1], sign, 0)]]
DftAxis1(A, sign) ==
    [A EXCEPT !.a = [p \in Cells(A.h, A.w) |->
        DftSum([m \in 0 .. A.w - 1 |-> A.a[<<p[1], m>>]], A.w, p[2], sign, 0)]]

\* scipy.fft.fft2: the forward DFT over both axes
Fft2(A) == DftAxis0(DftAxis1(A, -1), -1)
\* the forward transform used where the inverse belongs
Ifft2Forward(A) == Fft2(A)
\* scipy.fft.ifft2: the inverse DFT over both axes, scaled by 1 / (h * w)
Ifft2(A) == [DftAxis0(DftAxis1(A, 1), 1) EXCEPT !.den = A.den * A.h * A.w]

\* np.abs: a magnitude array [h, w, den, sq]; the cell is sqrt(sq / den)
\* a magnitude array with its denominator and coefficients in lowest terms
AbsInt(n) == IF n < 0 THEN -n ELSE n
\* the greatest divisor of g that divides every element of S
RECURSIVE GcdWith(_, _)
GcdWith(S, g) ==
    IF \A x \in S : x % g = 0 THEN g
    ELSE GcdWith(S, Gcd(g, CHOOSE x \in S : x % g # 0))
CoefAbs(A) ==
    UNION {{AbsInt(t[2][i]) : i \in 1 .. 4, t \in A.sq[p]} : p \in Cells(A.h, A.w)}
MagReduce(A) ==
    LET g == GcdWith(CoefAbs(A), AbsInt(A.den))
    IN  [A EXCEPT !.den = A.den \div g,
                  !.sq = [p \in Cells(A.h, A.w) |->
                             {<<t[1], <<t[2][1] \div g, t[2][2] \div g,
                                        t[2][3] \div g, t[2][4] \div g>>>> : t \in A.sq[p]}]]

Abs(A) ==
    MagReduce([h |-> A.h, w |-> A.w, den |-> A.den * A.den,
               sq |-> [p \in Cells(A.h, A.w) |-> ENormSq(A.a[p])]])

MagArrEq(A, B) ==
    /\ A.h = B.h /\ A.w = B.w
    /\ \A p \in Cells(A.h, A.w) : EScale(B.den, A.sq[p]) = EScale(A.den, B.sq[p])

-----------------------------------------------------------------------------
(* Transform engine.                                                       *)

image_to_kspace(img) == FftShift(Fft2(img))

reconstruct_image_from_kspaceNoInverse(k) == Abs(Ifft2Forward(IfftShift(k)))
reconstruct_image_from_kspace(k) == Abs(Ifft2(IfftShift(k)))

\* shapes whose DFT roots lie in Z[z]
Dims == {n \in 1 .. MaxDim : 12 % n = 0}
Samples == {Complex(re, im) : re \in 0 .. MaxVal, im \in 0 .. MaxVal}
Units == {RZero, ROne}

\* the image with sample v1 at cell p1 and v2 added at cell p2
TwoImpulse(h, w, p1, v1, p2, v2) ==
    Arr(h, w, 1, [p \in Cells(h, w) |->
        EConst(RAdd(IF p = p1 THEN v1 ELSE RZero, IF p = p2 THEN v2 ELSE RZero))])

Images ==
    UNION {{TwoImpulse(s[1], s[2], p1, v1, p2, v2) :
              p1 \in Cells(s[1], s[2]), p2 \in Cells(s[1], s[2]),
              v1 \in Samples, v2 \in Units} : s \in Dims \X Dims}

TransformIdle == image = None /\ spectrum = None /\ unshifted = None /\ recon = None
FilterIdle ==
    /\ fraction = None /\ sigma_fraction = None /\ mask = None
    /\ partial_kspace = None /\ lowpass_kspace = None /\ highpass_kspace = None
CallIdle ==
    /\ heap = <<>> /\ heap0 = <<>> /\ arg_img = 0 /\ arg_ref_max = None /\ ret = 0
MetricIdle ==
    /\ img1 = None /\ img2 = None /\ mae = None /\ corner_frac = None /\ noise = None
PipeIdle ==
    /\ prefix = None /\ full_max = None /\ raws = None /\ imgs = None /\ files = {}
    /\ analysis = None /\ metrics_data = <<>> /\ mae_calls = {} /\ invoked = <<>>
GuiIdle ==
    /\ current_image = None /\ current_kspace = None /\ result_raw = None
    /\ emitted = None
    /\ processing_threads = <<>> /\ signals = <<>> /\ reconstructions = <<>>
WindowIdle ==
    /\ stack = <<>> /\ progress_bar = FALSE /\ display = <<>> /\ accepted = FALSE
    /\ partial_spinbox = 0 /\ sigma_spinbox = 0

InitTransform ==
    /\ pc = "image"
    /\ image \in Images
    /\ spectrum = None /\ kspace = None /\ unshifted = None /\ recon = None
    /\ FilterIdle /\ CallIdle /\ MetricIdle /\ PipeIdle /\ GuiIdle /\ WindowIdle

ToKspace ==
    /\ pc = "image"
    /\ spectrum' = Fft2(image)
    /\ kspace' = image_to_kspace(image)
    /\ pc' = "kspace"
    /\ UNCHANGED <<pipeVars, guiVars, image, unshifted, recon, filterVars, callVars, metricVars, windowVars>>

Reconstruct ==
    /\ pc = "kspace"
    /\ unshifted' = IfftShift(kspace)
    /\ recon' = reconstruct_image_from_kspace(kspace)
    /\ pc' = "done"
    /\ UNCHANGED <<pipeVars, guiVars, image, spectrum, kspace, filterVars, callVars, metricVars, windowVars>>

NextTransform == ToKspace \/ Reconstruct

SpecTransform == InitTransform /\ [][NextTransform]_vars

ArrSum(A) == ESumSet({<<p, A.a[p]>> : p \in Cells(A.h, A.w)})
OddShape(A) == A.h % 2 = 1 /\ A.w % 2 = 1 /\ A.h > 1 /\ A.w > 1
HasComplexSample(A) == \E p \in Cells(A.h, A.w) : ECoef(A.a[p], QZero)[4] # 0

\* C1: once an image has gone through image_to_kspace and then
\* reconstruct_image_from_kspace, the reconstruction equals |image| cell by
\* cell, for every shape (odd or even) and every complex input.
C1_RoundTrip == pc = "done" => MagArrEq(recon, Abs(image))

C1_Witness ==
    /\ pc = "done" /\ OddShape(image) /\ HasComplexSample(image)
    /\ MagArrEq(recon, Abs(image))

\* C2: the centering shift moves index (i, j) of the spectrum to
\* ((i + H//2) mod H, (j + W//2) mod W), so the zero-frequency component (the
\* sum of all samples) sits at (H//2, W//2), and the un-shift of the inverse
\* returns every element to the index it had before the shift.
C2_ShiftInverse ==
    pc = "done" =>
        /\ unshifted = spectrum
        /\ \A p \in Cells(spectrum.h, spectrum.w) :
              kspace.a[<<(p[1] + spectrum.h \div 2) % spectrum.h,
                         (p[2] + spectrum.w \div 2) % spectrum.w>>] = spectrum.a[p]
        /\ kspace.a[<<kspace.h \div 2, kspace.w \div 2>>] = ArrSum(image)

C2_Witness ==
    /\ pc = "done" /\ OddShape(image) /\ unshifted = spectrum
    /\ kspace # spectrum
    /\ kspace.a[<<1, 1>>] = ArrSum(image) /\ ArrSum(image) # EZero

-----------------------------------------------------------------------------
(* Frequency filters.                                                      *)

Min2(a, b) == IF a < b THEN a ELSE b
Max2(a, b) == IF a > b THEN a ELSE b

\* the indices a Python slice [start:stop] selects on an axis of length n
PySliceIndex(i, n) == IF i < 0 THEN Max2(i + n, 0) ELSE Min2(i, n)
PySlice(start, stop, n) == PySliceIndex(start, n) .. PySliceIndex(stop, n) - 1

\* int(n * fraction / 2) for a fraction <<num, den>> > 0
HalfExtentRoundUp(n, f) == (n * f[1] + 2 * f[2] - 1) \div (2 * f[2])
HalfExtent(n, f) == (n * f[1]) \div (2 * f[2])

\* the boolean mask of simulate_partial_kspace: True on the sliced window
PartialWindow(h, w, f) ==
    PySlice(h \div 2 - HalfExtent(h, f), h \div 2 + HalfExtent(h, f), h)
        \X PySlice(w \div 2 - HalfExtent(w, f), w \div 2 + HalfExtent(w, f), w)

simulate_partial_kspace(k, f) ==
    [k EXCEPT !.a = [p \in Cells(k.h, k.w) |->
        IF p \in PartialWindow(k.h, k.w, f) THEN k.a[p] ELSE EZero]]

\* np.arange(-n // 2, n // 2)[r]: Python reads -n // 2 as (-n) // 2
GridCoord(n, r) == ((-n) \div 2) + r
GridLength(n) == (n \div 2) - ((-n) \div 2)

\* d2 / (2 * sigma^2) with sigma = sigma_fraction * max(rows, cols)
MaskExponent(h, w, s, p) ==
    QNorm((GridCoord(h, p[1]) * GridCoord(h, p[1]) + GridCoord(w, p[2]) * GridCoord(w, p[2]))
              * s[2] * s[2],
          2 * s[1] * s[1] * Max2(h, w) * Max2(h, w))

\* exp(-q)
Exp(q) == {<<q, ROne>>}

gaussian_kspace_mask(h, w, s) ==
    Arr(h, w, 1, [p \in Cells(h, w) |-> Exp(MaskExponent(h, w, s, p))])

\* element-wise kspace * m and 1.0 - m
ArrMul(k, m) == [k EXCEPT !.a = [p \in Cells(k.h, k.w) |-> EMul(k.a[p], m.a[p])]]
OneMinus(m) == [m EXCEPT !.a = [p \in Cells(m.h, m.w) |-> EAdd(EInt(1), ENeg(m.a[p]))]]
ArrAdd(x, y) == [x EXCEPT !.a = [p \in Cells(x.h, x.w) |-> EAdd(x.a[p], y.a[p])]]

apply_lowpass_filter(k, s) == ArrMul(k, gaussian_kspace_mask(k.h, k.w, s))

apply_highpass_filterNoComplement(k, s) == ArrMul(k, gaussian_kspace_mask(k.h, k.w, s))
apply_highpass_filter(k, s) == ArrMul(k, OneMinus(gaussian_kspace_mask(k.h, k.w, s)))

\* the configured and default parameters
PARTIAL_KSpace_FRACTION == <<1, 2>>
LOWPASS_SIGMA_FRACTION == <<1, 20>>
HIGHPASS_SIGMA_FRACTION == <<1, 20>>

Fractions == {QNorm(n, d) : n \in 1 .. MaxDen, d \in 1 .. MaxDen} \cap
                 {f \in (1 .. MaxDen) \X (1 .. MaxDen) : f[1] <= f[2]}
SigmaFractions ==
    {LOWPASS_SIGMA_FRACTION, <<1, 10>>} \cup {<<n, 1>> : n \in 1 .. MaxSigma}

\* frequency arrays: every cell distinct and non-zero, scaled by v; v = 0 is
\* the all-zero array
Tagged(h, w, v) ==
    Arr(h, w, 1, [p \in Cells(h, w) |-> EConst(RScale(v, Complex(1 + p[1], 1 + p[2])))])
FreqArrays == {Tagged(h, w, v) : h \in 1 .. MaxDim, w \in 1 .. MaxDim, v \in 0 .. MaxVal}

InitFilters ==
    /\ pc = "kspace"
    /\ kspace \in FreqArrays
    /\ fraction \in Fractions
    /\ sigma_fraction \in SigmaFractions
    /\ mask = None /\ partial_kspace = None /\ lowpass_kspace = None
    /\ highpass_kspace = None
    /\ TransformIdle /\ CallIdle /\ MetricIdle /\ PipeIdle /\ GuiIdle /\ WindowIdle

GaussianMask ==
    /\ pc = "kspace"
    /\ mask' = gaussian_kspace_mask(kspace.h, kspace.w, sigma_fraction)
    /\ pc' = "mask"
    /\ UNCHANGED <<pipeVars, guiVars, kspace, transformVars, callVars, metricVars, fraction, sigma_fraction, partial_kspace,
                   lowpass_kspace, highpass_kspace, windowVars>>

SimulatePartial ==
    /\ pc = "mask"
    /\ partial_kspace' = simulate_partial_kspace(kspace, fraction)
    /\ pc' = "partial"
    /\ UNCHANGED <<pipeVars, guiVars, kspace, transformVars, callVars, metricVars, fraction, sigma_fraction, mask,
                   lowpass_kspace, highpass_kspace, windowVars>>

ApplyLowpass ==
    /\ pc = "partial"
    /\ lowpass_kspace' = apply_lowpass_filter(kspace, sigma_fraction)
    /\ pc' = "lowpass"
    /\ UNCHANGED <<pipeVars, guiVars, kspace, transformVars, callVars, metricVars, fraction, sigma_fraction, mask,
                   partial_kspace, highpass_kspace, windowVars>>

ApplyHighpass ==
    /\ pc = "lowpass"
    /\ highpass_kspace' = apply_highpass_filter(kspace, sigma_fraction)
    /\ pc' = "highpass"
    /\ UNCHANGED <<pipeVars, guiVars, kspace, transformVars, callVars, metricVars, fraction, sigma_fraction, mask,
                   partial_kspace, lowpass_kspace, windowVars>>

NextFilters == GaussianMask \/ SimulatePartial \/ ApplyLowpass \/ ApplyHighpass

SpecFilters == InitFilters /\ [][NextFilters]_vars

MaskDone == pc \in {"mask", "partial", "lowpass", "highpass"}
PartialDone == pc \in {"partial", "lowpass", "highpass"}
NonZeroArr(A) == \E p \in Cells(A.h, A.w) : A.a[p] # EZero
Center(A) == <<A.h \div 2, A.w \div 2>>

\* C3: with both filters applied to the same frequency array F with the same
\* sigma fraction, low-pass(F) + high-pass(F) equals F at every cell.
C3_Complementary ==
    pc = "highpass" => ArrAdd(lowpass_kspace, highpass_kspace) = kspace

C3_Witness ==
    /\ pc = "highpass" /\ OddShape(kspace) /\ NonZeroArr(kspace)
    /\ lowpass_kspace # kspace /\ NonZeroArr(highpass_kspace)
    /\ ArrAdd(lowpass_kspace, highpass_kspace) = kspace

\* C4: simulate_partial_kspace(F, fraction), fraction in (0, 1], equals F on
\* the cells with H//2 - hr <= r < H//2 + hr and W//2 - hc <= c < W//2 + hc,
\* hr = floor(H * fraction / 2), hc = floor(W * fraction / 2), and is zero
\* elsewhere; the window neither wraps around nor leaves the array.
C4_PartialWindow ==
    PartialDone =>
        LET h == kspace.h
            w == kspace.w
            hr == (h * fraction[1]) \div (2 * fraction[2])
            hc == (w * fraction[1]) \div (2 * fraction[2])
        IN  /\ 0 <= h \div 2 - hr /\ h \div 2 + hr <= h
            /\ 0 <= w \div 2 - hc /\ w \div 2 + hc <= w
            /\ partial_kspace.h = h /\ partial_kspace.w = w
            /\ \A p \in Cells(h, w) :
                  partial_kspace.a[p] =
                      IF /\ h \div 2 - hr <= p[1] /\ p[1] < h \div 2 + hr
                         /\ w \div 2 - hc <= p[2] /\ p[2] < w \div 2 + hc
                      THEN kspace.a[p] ELSE EZero

C4_Witness ==
    /\ PartialDone /\ OddShape(kspace) /\ NonZeroArr(partial_kspace)
    /\ partial_kspace # kspace /\ fraction = <<1, 1>>

\* the exponent q of a mask value exp(-q): a larger q is a smaller value
ExpKey(v) == (CHOOSE t \in v : TRUE)[1]

\* C7: the maximum element of gaussian_kspace_mask(shape, s) is at the
\* designated center index (H//2, W//2) for every shape, odd or even.
C7_MaskMaxAtCenter ==
    MaskDone =>
        \A p \in Cells(mask.h, mask.w) :
            ~QLess(ExpKey(mask.a[p]), ExpKey(mask.a[Center(mask)]))

\* C8: every value of gaussian_kspace_mask(shape, s) is exp(-q) with q >= 0,
\* so it lies in (0, 1], and exactly one cell has the value 1.
C8_MaskBounds ==
    MaskDone =>
        /\ \A p \in Cells(mask.h, mask.w) :
              \E t \in mask.a[p] : mask.a[p] = {t} /\ t[2] = ROne /\ t[1][1] >= 0 /\ t[1][2] > 0
        /\ Cardinality({p \in Cells(mask.h, mask.w) : mask.a[p] = EInt(1)}) = 1

-----------------------------------------------------------------------------
(* Reconstruction & normalization.  A magnitude scalar is [sq, den], the   *)
(* value sqrt(sq / den); a magnitude array is [h, w, den, sq].             *)

MagScalar(n, d) == [sq |-> EInt(n * n), den |-> d * d]
MagOne == MagScalar(1, 1)
MagIsZero(r) == r.sq = EZero

\* order of two exponent-free real values
ELeq(a, b) ==
    /\ \A t \in a \cup b : t[1] = QZero /\ RIsReal(t[2])
    /\ RSign(RAdd(ECoef(b, QZero), RScale(-1, ECoef(a, QZero)))) >= 0

\* ndarray.max() of a magnitude array
MagMax(A) ==
    [sq |-> CHOOSE m \in {A.sq[p] : p \in Cells(A.h, A.w)} :
                \A p \in Cells(A.h, A.w) : ELeq(A.sq[p], m),
     den |-> A.den]

\* img / ref_max for ref_max = sqrt(c / d), c = p + q sqrt(3) > 0:
\* 1 / c = (p - q sqrt(3)) / (p^2 - 3 q^2); a zero divisor leaves NaN / Inf
\* cells, kept as a zero denominator
MagArrDiv(A, r) ==
    LET c == ECoef(r.sq, QZero)
        cbar == <<c[1], -c[2], 0, -c[4]>>
        n == c[1] * c[1] - 3 * c[4] * c[4]
        sgn == IF n < 0 THEN -1 ELSE 1
    IN  IF n = 0 THEN [A EXCEPT !.den = 0]
        ELSE MagReduce([A EXCEPT !.den = A.den * n * sgn,
                                 !.sq = [p \in Cells(A.h, A.w) |->
                                            EMulConst(RScale(sgn * r.den, cbar), A.sq[p])]])

normalize_by_reference(img, ref_max) ==
    IF MagIsZero(ref_max) THEN img ELSE MagArrDiv(img, ref_max)

\* the call on array objects: both branches build a new array
NormalizeCallInPlace(h, img, ref_max) ==
    [heap |-> [h EXCEPT ![img] = normalize_by_reference(h[img], ref_max)], ret |-> img]
NormalizeCall(h, img, ref_max) ==
    [heap |-> Append(h, normalize_by_reference(h[img], ref_max)), ret |-> Len(h) + 1]

\* real non-negative arrays: every cell distinct, scaled by v; v = 0 is the
\* all-zero array
MagTagged(h, w, v) ==
    [h |-> h, w |-> w, den |-> 1,
     sq |-> [p \in Cells(h, w) |-> EInt((v * (1 + p[1] * w + p[2])) * (v * (1 + p[1] * w + p[2])))]]
RealArrays == {MagTagged(h, w, v) : h \in 1 .. MaxDim, w \in 1 .. MaxDim, v \in 0 .. MaxVal}
RefMaxes == {MagScalar(n, d) : n \in 0 .. MaxRef, d \in 1 .. 2}

InitNormalize ==
    /\ pc = "call"
    /\ heap \in {<<A>> : A \in RealArrays}
    /\ heap0 = heap
    /\ arg_img = 1
    /\ arg_ref_max \in RefMaxes
    /\ ret = 0
    /\ kspace = None /\ TransformIdle /\ FilterIdle /\ MetricIdle /\ PipeIdle /\ GuiIdle /\ WindowIdle

NormalizeByReference ==
    /\ pc = "call"
    /\ heap' = NormalizeCall(heap, arg_img, arg_ref_max).heap
    /\ ret' = NormalizeCall(heap, arg_img, arg_ref_max).ret
    /\ pc' = "returned"
    /\ UNCHANGED <<pipeVars, guiVars, kspace, transformVars, filterVars, metricVars, heap0, arg_img, arg_ref_max, windowVars>>

NextNormalize == NormalizeByReference

SpecNormalize == InitNormalize /\ [][NextNormalize]_vars

\* C6: normalize_by_reference(img, ref_max) returns an array equal to img when
\* ref_max == 0 and img with every element divided by ref_max otherwise; the
\* result is a new array and img itself is left as it was.
C6_Normalize ==
    pc = "returned" =>
        /\ ret \notin DOMAIN heap0
        /\ \A id \in DOMAIN heap0 : heap[id] = heap0[id]
        /\ heap[ret].h = heap0[arg_img].h /\ heap[ret].w = heap0[arg_img].w
        /\ \A p \in Cells(heap0[arg_img].h, heap0[arg_img].w) :
              IF MagIsZero(arg_ref_max)
              THEN EScale(heap0[arg_img].den, heap[ret].sq[p])
                       = EScale(heap[ret].den, heap0[arg_img].sq[p])
              ELSE \* result^2 * ref_max^2 = img^2
                   EScale(heap0[arg_img].den, EMul(heap[ret].sq[p], arg_ref_max.sq))
                       = EScale(heap[ret].den * arg_ref_max.den, heap0[arg_img].sq[p])

C6_WitnessZero ==
    /\ pc = "returned" /\ MagIsZero(arg_ref_max) /\ ret = 2
    /\ heap[2] = heap[1] /\ \E p \in DOMAIN heap[1].sq : heap[1].sq[p] # EZero
C6_Witness ==
    /\ pc = "returned" /\ ~MagIsZero(arg_ref_max) /\ arg_ref_max # MagOne /\ ret = 2
    /\ heap[1] = heap0[1] /\ heap[2] # heap[1]
    /\ \E p \in DOMAIN heap[1].sq : heap[1].sq[p] # EZero

-----------------------------------------------------------------------------
(* Metrics.  A scalar is [kind, exact, sym, n]: the value                  *)
(* exact + (sum of the |x - y| of the pairs in sym) / n, where exact is a  *)
(* rational and sym holds the pairs whose roots are irrational.            *)

\* floor of the square root, by bisection of lo .. hi
RECURSIVE IsqrtBetween(_, _, _)
IsqrtBetween(n, lo, hi) ==
    IF lo >= hi THEN lo
    ELSE LET mid == (lo + hi + 1) \div 2
         IN  IF mid * mid <= n THEN IsqrtBetween(n, mid, hi)
             ELSE IsqrtBetween(n, lo, mid - 1)
Isqrt(n) == IsqrtBetween(n, 0, Min2(n, 46340))
IsSquare(n) == n >= 0 /\ Isqrt(n) * Isqrt(n) = n

\* cell p of a magnitude array as a rational, when it is one
HasRoot(A, p) ==
    /\ A.sq[p] = EInt(ECoef(A.sq[p], QZero)[1])
    /\ IsSquare(ECoef(A.sq[p], QZero)[1]) /\ IsSquare(A.den)
Root(A, p) == QNorm(Isqrt(ECoef(A.sq[p], QZero)[1]), Isqrt(A.den))

QDiffSigned(x, y) == QAdd(x, <<-y[1], y[2]>>)
QAbsDiff(x, y) ==
    IF QLess(x, y) THEN QAdd(y, <<-x[1], x[2]>>) ELSE QAdd(x, <<-y[1], y[2]>>)

RECURSIVE QSumSet(_)
QSumSet(S) ==
    IF S = {} THEN QZero
    ELSE LET x == CHOOSE y \in S : TRUE IN QAdd(x[2], QSumSet(S \ {x}))

\* numpy broadcasting of two axis lengths; 0 when they are incompatible
BroadcastDim(n1, n2) ==
    IF n1 = n2 THEN n1 ELSE IF n1 = 1 THEN n2 ELSE IF n2 = 1 THEN n1 ELSE 0
\* the cell of A that broadcasting reads at position p
BroadcastCell(A, p) ==
    <<IF A.h = 1 THEN 0 ELSE p[1], IF A.w = 1 THEN 0 ELSE p[2]>>
CellEq(A, p, B, q) == EScale(B.den, A.sq[p]) = EScale(A.den, B.sq[q])

ScalarZero == [kind |-> "scalar", exact |-> QZero, sym |-> {}, n |-> 1]

\* np.mean(np.abs(a - b)) over the broadcast shape h x w
MeanAbsDiff(a, b, h, w) ==
    LET P == Cells(h, w)
        Same == {p \in P : CellEq(a, BroadcastCell(a, p), b, BroadcastCell(b, p))}
        Rat == {p \in P \ Same :
                   HasRoot(a, BroadcastCell(a, p)) /\ HasRoot(b, BroadcastCell(b, p))}
        Sym == (P \ Same) \ Rat
        total == QSumSet({<<p, QAbsDiff(Root(a, BroadcastCell(a, p)),
                                        Root(b, BroadcastCell(b, p)))>> : p \in Rat})
    IN  [kind |-> "scalar",
         exact |-> QNorm(total[1], total[2] * h * w),
         sym |-> {<<p, a.sq[BroadcastCell(a, p)], a.den,
                       b.sq[BroadcastCell(b, p)], b.den>> : p \in Sym},
         n |-> IF Sym = {} THEN 1 ELSE h * w]

calculate_mae(a, b) ==
    IF BroadcastDim(a.h, b.h) = 0 \/ BroadcastDim(a.w, b.w) = 0
    THEN [kind |-> "ValueError"]
    ELSE MeanAbsDiff(a, b, BroadcastDim(a.h, b.h), BroadcastDim(a.w, b.w))

\* image metrics: the Sobel mean and the standard deviation are library
\* calls, kept as terms over their argument
CORNER_FRAC == <<2, 25>>
\* round(n * f), halves to the even neighbour
PyRound(n, f) ==
    LET fl == (n * f[1]) \div f[2]
        r == (n * f[1]) % f[2]
    IN  IF 2 * r < f[2] THEN fl
        ELSE IF 2 * r > f[2] THEN fl + 1
        ELSE IF fl % 2 = 0 THEN fl ELSE fl + 1
CornerSizeRound(n, f) == Max2(1, PyRound(n, f))
\* max(1, int(n * corner_frac))
CornerSize(n, f) == Max2(1, (n * f[1]) \div f[2])
\* image[0:corner_size_h, 0:corner_size_w]
Corner(A, f) ==
    [h |-> Cardinality(PySlice(0, CornerSize(A.h, f), A.h)),
     w |-> Cardinality(PySlice(0, CornerSize(A.w, f), A.w)),
     den |-> A.den,
     sq |-> [p \in PySlice(0, CornerSize(A.h, f), A.h) \X PySlice(0, CornerSize(A.w, f), A.w)
                |-> A.sq[p]]]
calculate_sharpness(A) == [kind |-> "mean_sobel_gradient", of |-> A]
calculate_noise(A, f) == [kind |-> "std", of |-> Corner(A, f)]

NoiseFractions == Fractions \cup {CORNER_FRAC}

InitMetrics ==
    /\ pc = "call"
    /\ img1 \in RealArrays
    /\ img2 \in RealArrays
    /\ mae = None /\ corner_frac = None /\ noise = None
    /\ kspace = None /\ TransformIdle /\ FilterIdle /\ CallIdle /\ PipeIdle /\ GuiIdle /\ WindowIdle

CalculateMae ==
    /\ pc = "call"
    /\ mae' = calculate_mae(img1, img2)
    /\ pc' = "mae"
    /\ UNCHANGED <<pipeVars, guiVars, kspace, transformVars, filterVars, callVars, img1, img2,
                   corner_frac, noise, windowVars>>

CalculateNoise ==
    /\ pc = "call"
    /\ \E f \in NoiseFractions :
          /\ corner_frac' = f
          /\ noise' = calculate_noise(img1, f)
    /\ pc' = "noise"
    /\ UNCHANGED <<pipeVars, guiVars, kspace, transformVars, filterVars, callVars, img1, img2,
                   mae, windowVars>>

NextMetrics == CalculateMae \/ CalculateNoise

SpecMetrics == InitMetrics /\ [][NextMetrics]_vars

\* C9: calculate_mae(img1, img2) raises an error and returns no scalar
\* whenever img1 and img2 have different shapes.
C9_ShapeMismatchRejected ==
    pc = "mae" => ((img1.h # img2.h \/ img1.w # img2.w) => mae.kind = "ValueError")

-----------------------------------------------------------------------------
(* Pipeline, analysis and GUI worker.                                      *)

RESULTS_RAW_DIR == "results/raw"
Prefixes == {"shepp_logan"}

\* x.max() if x.max() != 0 else 1.0
RefMaxNoFallback(A) == MagMax(A)
RefMaxOrOne(A) == IF MagIsZero(MagMax(A)) THEN MagOne ELSE MagMax(A)
\* full_raw.max() if full_raw.size > 0 else 1.0
FullMax(full_raw) == IF full_raw.h * full_raw.w > 0 THEN MagMax(full_raw) ELSE MagOne

\* the normalized variant built from a raw variant and the reference maximum
VariantImgOwnMax(raw, ref) == normalize_by_reference(raw, MagMax(raw))
\* ... where the model orders the cells (no Gaussian weight among them)
VariantImgOwnMaxExact(raw, ref) ==
    IF \A p \in Cells(raw.h, raw.w) : \A t \in raw.sq[p] : t[1] = QZero
    THEN normalize_by_reference(raw, MagMax(raw))
    ELSE normalize_by_reference(raw, ref)
VariantImg(raw, ref) == normalize_by_reference(raw, ref)

\* real-valued images: cell (r, c) holds v * (1 + r * w + c); v = 0 is the
\* all-zero image
Ramp(h, w, v) ==
    Arr(h, w, 1, [p \in Cells(h, w) |-> EInt(v * (1 + p[1] * w + p[2]))])
RealImages == {Ramp(h, w, v) : h \in Dims, w \in Dims, v \in 0 .. MaxVal}

\* files: records [dir, name, content]
PngFile(name, img) ==
    [dir |-> RESULTS_RAW_DIR, name |-> name \o ".png", content |-> [figure |-> img]]
save_reconstructed_image(fs, name, img) ==
    {f \in fs : ~(f.dir = RESULTS_RAW_DIR /\ f.name = name \o ".png")} \cup {PngFile(name, img)}
save_reconstructionsDataDir(fs, pre, r) ==
    {f \in fs : ~(f.dir = RESULTS_RAW_DIR \o "/data" /\ f.name = pre \o "_reconstructions.npz")}
        \cup {[dir |-> RESULTS_RAW_DIR \o "/data", name |-> pre \o "_reconstructions.npz",
               content |-> [full_raw |-> r.full, partial_raw |-> r.partial,
                            lowpass_raw |-> r.lowpass, highpass_raw |-> r.highpass]]}
save_reconstructionsOneName(fs, pre, r) ==
    {f \in fs : ~(f.dir = RESULTS_RAW_DIR /\ f.name = "recons.npz")}
        \cup {[dir |-> RESULTS_RAW_DIR, name |-> "recons.npz",
               content |-> [full_raw |-> r.full, partial_raw |-> r.partial,
                            lowpass_raw |-> r.lowpass, highpass_raw |-> r.highpass]]}
save_reconstructions(fs, pre, r) ==
    {f \in fs : ~(f.dir = RESULTS_RAW_DIR /\ f.name = pre \o "_recons.npz")}
        \cup {[dir |-> RESULTS_RAW_DIR, name |-> pre \o "_recons.npz",
               content |-> [full_raw |-> r.full, partial_raw |-> r.partial,
                            lowpass_raw |-> r.lowpass, highpass_raw |-> r.highpass]]}
Exists(fs, dir, name) == \E f \in fs : f.dir = dir /\ f.name = name
Load(fs, dir, name) == (CHOOSE f \in fs : f.dir = dir /\ f.name = name).content

InitPipeline ==
    /\ pc = "start"
    /\ image \in RealImages
    /\ prefix \in Prefixes
    /\ full_max = None
    /\ raws = [full |-> None, partial |-> None, lowpass |-> None, highpass |-> None]
    /\ imgs = [full |-> None, partial |-> None, lowpass |-> None, highpass |-> None]
    /\ files = {}
    /\ analysis = "none" /\ metrics_data = <<>> /\ mae_calls = {} /\ invoked = <<>>
    /\ kspace = None /\ spectrum = None /\ unshifted = None /\ recon = None
    /\ FilterIdle /\ CallIdle /\ MetricIdle /\ GuiIdle /\ WindowIdle

\* process_phantom / process_mri_image up to the call of reconstruct_all_versions
ProcessImage ==
    /\ pc = "start"
    /\ kspace' = image_to_kspace(image)
    /\ pc' = "kspace"
    /\ UNCHANGED <<image, spectrum, unshifted, recon, filterVars, callVars, metricVars,
                   pipeVars, guiVars, windowVars>>

\* reconstruct_all_versions, one block of the function per step
ReconFull ==
    /\ pc = "kspace"
    /\ \E full_raw \in {reconstruct_image_from_kspace(kspace)} :
       \E max \in {FullMax(full_raw)} :
       \E full_img \in {VariantImg(full_raw, max)} :
           /\ raws' = [raws EXCEPT !.full = full_raw]
           /\ full_max' = max
           /\ imgs' = [imgs EXCEPT !.full = full_img]
           /\ files' = save_reconstructed_image(files, prefix \o "_recon_full", full_img)
    /\ pc' = "full"
    /\ UNCHANGED <<kspace, transformVars, filterVars, callVars, metricVars, guiVars,
                   invoked, prefix, analysis, metrics_data, mae_calls, windowVars>>

ReconPartial ==
    /\ pc = "full"
    /\ partial_kspace' = simulate_partial_kspace(kspace, PARTIAL_KSpace_FRACTION)
    /\ \E partial_raw \in {reconstruct_image_from_kspace(partial_kspace')} :
       \E partial_img \in {VariantImg(partial_raw, full_max)} :
           /\ raws' = [raws EXCEPT !.partial = partial_raw]
           /\ imgs' = [imgs EXCEPT !.partial = partial_img]
           /\ files' = save_reconstructed_image(files, prefix \o "_recon_partial", partial_img)
    /\ pc' = "partial"
    /\ UNCHANGED <<kspace, transformVars, callVars, metricVars, guiVars, fraction,
                   sigma_fraction, mask, lowpass_kspace, highpass_kspace,
                   invoked, prefix, full_max, analysis, metrics_data, mae_calls, windowVars>>

ReconLowpass ==
    /\ pc = "partial"
    /\ lowpass_kspace' = apply_lowpass_filter(kspace, LOWPASS_SIGMA_FRACTION)
    /\ \E lowpass_raw \in {reconstruct_image_from_kspace(lowpass_kspace')} :
       \E lowpass_img \in {VariantImg(lowpass_raw, full_max)} :
           /\ raws' = [raws EXCEPT !.lowpass = lowpass_raw]
           /\ imgs' = [imgs EXCEPT !.lowpass = lowpass_img]
           /\ files' = save_reconstructed_image(files, prefix \o "_recon_lowpass", lowpass_img)
    /\ pc' = "lowpass"
    /\ UNCHANGED <<kspace, transformVars, callVars, metricVars, guiVars, fraction,
                   sigma_fraction, mask, partial_kspace, highpass_kspace,
                   invoked, prefix, full_max, analysis, metrics_data, mae_calls, windowVars>>

ReconHighpass ==
    /\ pc = "lowpass"
    /\ highpass_kspace' = apply_highpass_filter(kspace, HIGHPASS_SIGMA_FRACTION)
    /\ \E highpass_raw \in {reconstruct_image_from_kspace(highpass_kspace')} :
       \E highpass_img \in {VariantImg(highpass_raw, full_max)} :
           /\ raws' = [raws EXCEPT !.highpass = highpass_raw]
           /\ imgs' = [imgs EXCEPT !.highpass = highpass_img]
           /\ files' = save_reconstructed_image(files, prefix \o "_recon_highpass", highpass_img)
    /\ pc' = "highpass"
    /\ UNCHANGED <<kspace, transformVars, callVars, metricVars, guiVars, fraction,
                   sigma_fraction, mask, partial_kspace, lowpass_kspace,
                   invoked, prefix, full_max, analysis, metrics_data, mae_calls, windowVars>>

SaveReconstructionsRetry ==
    /\ pc = "highpass"
    /\ files' = save_reconstructions(files, prefix, raws)
    /\ pc' = "kspace"
    /\ UNCHANGED <<kspace, transformVars, filterVars, callVars, metricVars, guiVars,
                   invoked, prefix, full_max, raws, imgs, analysis, metrics_data, mae_calls, windowVars>>
SaveReconstructions ==
    /\ pc = "highpass"
    /\ files' = save_reconstructions(files, prefix, raws)
    /\ pc' = "saved"
    /\ UNCHANGED <<kspace, transformVars, filterVars, callVars, metricVars, guiVars,
                   invoked, prefix, full_max, raws, imgs, analysis, metrics_data, mae_calls, windowVars>>

\* load_image: the pixels of a saved figure, kept as a term over the figure
load_image(content) == [raster_of |-> content]

AnalysisNames == <<"Full k-space", "Partial (50%)", "Low-pass", "High-pass">>
RESULTS_ANALYSIS_DIR == "results/analysis"

\* analyze_dataset computes the error of every variant but the reference
ErrorIsComputedAlways(name) == TRUE
ErrorIsComputed(name) == name # "Full k-space"

MetricRecord(name, full_img, img) ==
    [name |-> name,
     sharpness |-> calculate_sharpness(img),
     noise |-> calculate_noise(img, CORNER_FRAC),
     error |-> IF ErrorIsComputed(name) THEN calculate_mae(full_img, img) ELSE ScalarZero]
\* the same record over loaded figures, whose pixels are not modelled
RasterMetricRecord(name, full_img, img) ==
    [name |-> name,
     sharpness |-> [kind |-> "mean_sobel_gradient", of |-> img],
     noise |-> [kind |-> "std", of |-> [corner_of |-> img]],
     error |-> IF ErrorIsComputed(name)
               THEN [kind |-> "scalar", exact |-> QZero, sym |-> {<<full_img, img>>}, n |-> 1]
               ELSE ScalarZero]
AnalysisMaeCalls ==
    {<<"analyze_dataset", AnalysisNames[i]>> :
        i \in {j \in 1 .. 4 : ErrorIsComputed(AnalysisNames[j])}}
AnalysisOutputs(pre, metrics) ==
    {[dir |-> RESULTS_ANALYSIS_DIR, name |-> pre \o "_comparison.png",
      content |-> [comparison |-> pre]],
     [dir |-> RESULTS_ANALYSIS_DIR, name |-> pre \o "_report.txt",
      content |-> [report |-> metrics]]}
PngNames(pre) ==
    <<pre \o "_recon_full.png", pre \o "_recon_partial.png",
      pre \o "_recon_lowpass.png", pre \o "_recon_highpass.png">>

\* the same, with the stored raw images taken as they are
AnalyzeFromNpzRaw ==
    \E data \in {Load(files, RESULTS_RAW_DIR, prefix \o "_recons.npz")} :
    \E images \in {<<data.full_raw, data.partial_raw, data.lowpass_raw, data.highpass_raw>>} :
    \E metrics \in {[i \in 1 .. 4 |-> MetricRecord(AnalysisNames[i], images[1], images[i])]} :
        /\ analysis' = "npz"
        /\ metrics_data' = metrics
        /\ mae_calls' = mae_calls \cup AnalysisMaeCalls
        /\ files' = files \cup AnalysisOutputs(prefix, metrics)

AnalyzeFromNpz ==
    \E data \in {Load(files, RESULTS_RAW_DIR, prefix \o "_recons.npz")} :
    \E ref_max \in {RefMaxOrOne(data.full_raw)} :
    \E images \in {<<MagArrDiv(data.full_raw, ref_max), MagArrDiv(data.partial_raw, ref_max),
                     MagArrDiv(data.lowpass_raw, ref_max),
                     MagArrDiv(data.highpass_raw, ref_max)>>} :
    \E metrics \in {[i \in 1 .. 4 |-> MetricRecord(AnalysisNames[i], images[1], images[i])]} :
        /\ analysis' = "npz"
        /\ metrics_data' = metrics
        /\ mae_calls' = mae_calls \cup AnalysisMaeCalls
        /\ files' = files \cup AnalysisOutputs(prefix, metrics)

AnalyzeFromPng ==
    \E images \in {[i \in 1 .. 4 |->
                      load_image(Load(files, RESULTS_RAW_DIR, PngNames(prefix)[i]))]} :
    \E metrics \in {[i \in 1 .. 4 |->
                       RasterMetricRecord(AnalysisNames[i], images[1], images[i])]} :
        /\ analysis' = "png"
        /\ metrics_data' = metrics
        /\ mae_calls' = mae_calls \cup AnalysisMaeCalls
        /\ files' = files \cup AnalysisOutputs(prefix, metrics)

AnalyzeDataset ==
    /\ pc \in {"start", "kspace", "full", "partial", "lowpass", "highpass", "saved"}
    /\ IF Exists(files, RESULTS_RAW_DIR, prefix \o "_recons.npz")
       THEN AnalyzeFromNpz
       ELSE IF ~Exists(files, RESULTS_RAW_DIR, PngNames(prefix)[1])
       THEN \* "Required files not found": return
            analysis' = "error" /\ UNCHANGED <<metrics_data, mae_calls, files>>
       ELSE IF \E i \in 2 .. 4 : ~Exists(files, RESULTS_RAW_DIR, PngNames(prefix)[i])
       THEN \* plt.imread raises FileNotFoundError
            analysis' = "exception" /\ UNCHANGED <<metrics_data, mae_calls, files>>
       ELSE AnalyzeFromPng
    /\ pc' = "analyzed"
    /\ UNCHANGED <<kspace, transformVars, filterVars, callVars, metricVars, guiVars,
                   invoked, prefix, full_max, raws, imgs, windowVars>>

\* GUI: load_image_file converts to complex and divides by the largest magnitude
\* the standalone kspace_analysis.py: its directories and its analyze_dataset,
\* which opens the four PNGs without testing for them
OUT_DIR == "kspace_results"
RESULTS_DIR == "kspace_analysis"
AnalyzeDatasetLegacy ==
    /\ pc \in {"start", "kspace", "full", "partial", "lowpass", "highpass", "saved"}
    /\ IF Exists(files, OUT_DIR, prefix \o "_recons.npz")
       THEN \E data \in {Load(files, OUT_DIR, prefix \o "_recons.npz")} :
            \E ref_max \in {RefMaxOrOne(data.full_raw)} :
            \E images \in {<<MagArrDiv(data.full_raw, ref_max),
                             MagArrDiv(data.partial_raw, ref_max),
                             MagArrDiv(data.lowpass_raw, ref_max),
                             MagArrDiv(data.highpass_raw, ref_max)>>} :
                /\ analysis' = "npz"
                /\ metrics_data' =
                      [i \in 1 .. 4 |-> MetricRecord(AnalysisNames[i], images[1], images[i])]
                /\ mae_calls' = mae_calls \cup AnalysisMaeCalls
                /\ files' = files \cup {[dir |-> RESULTS_DIR,
                                         name |-> prefix \o "_comparison.png",
                                         content |-> [comparison |-> prefix]]}
       ELSE IF \E i \in 1 .. 4 : ~Exists(files, OUT_DIR, PngNames(prefix)[i])
       THEN \* plt.imread raises FileNotFoundError
            analysis' = "exception" /\ UNCHANGED <<metrics_data, mae_calls, files>>
       ELSE \E images \in {[i \in 1 .. 4 |->
                               load_image(Load(files, OUT_DIR, PngNames(prefix)[i]))]} :
                /\ analysis' = "png"
                /\ metrics_data' =
                      [i \in 1 .. 4 |->
                          RasterMetricRecord(AnalysisNames[i], images[1], images[i])]
                /\ mae_calls' = mae_calls \cup AnalysisMaeCalls
                /\ files' = files \cup {[dir |-> RESULTS_DIR,
                                         name |-> prefix \o "_comparison.png",
                                         content |-> [comparison |-> prefix]]}
    /\ pc' = "analyzed_legacy"
    /\ UNCHANGED <<kspace, transformVars, filterVars, callVars, metricVars, guiVars,
                   invoked, prefix, full_max, raws, imgs, windowVars>>

NormalizeImage(img) ==
    LET m == MagMax(Abs(img))
    IN  IF MagIsZero(m) THEN img
        ELSE [img EXCEPT !.den = img.den * Isqrt(ECoef(m.sq, QZero)[1])]

LoadImageFile ==
    /\ pc = "start"
    /\ \E img \in {NormalizeImage(image)} :
          /\ current_image' = Abs(img)
          /\ current_kspace' = image_to_kspace(img)
    /\ pc' = "loaded"
    /\ UNCHANGED <<kspace, transformVars, filterVars, callVars, metricVars, pipeVars,
                   result_raw, emitted, processing_threads, signals, reconstructions, windowVars>>

ProcessingTypes == {"full", "partial", "lowpass", "highpass"}
\* the spin box settings tried: <<partial percent, sigma per mille>>
SpinSettings == {<<50, 20>>, <<100, 10>>}
OrDefault(x, default) == IF x[1] = 0 THEN default ELSE x

\* ProcessingThread.run: the raw result and the reference maximum per type
WorkerRaw(type, k, f, s) ==
    CASE type = "full" -> reconstruct_image_from_kspace(k)
      [] type = "partial" -> reconstruct_image_from_kspace(simulate_partial_kspace(k, f))
      [] type = "lowpass" -> reconstruct_image_from_kspace(apply_lowpass_filter(k, s))
      [] type = "highpass" -> reconstruct_image_from_kspace(apply_highpass_filter(k, s))
WorkerRefMax(type, result, img) ==
    IF type = "full" THEN RefMaxOrOne(result) ELSE RefMaxOrOne(img)

\* process_image(type) starts a ProcessingThread on the loaded image with the
\* spin box values; run() computes the result and emits finished
RunProcessing(type) ==
    /\ pc = "loaded"
    /\ \E spin \in SpinSettings :
          /\ fraction' = OrDefault(QNorm(spin[1], 100), PARTIAL_KSpace_FRACTION)
          /\ sigma_fraction' = OrDefault(QNorm(spin[2], 1000), LOWPASS_SIGMA_FRACTION)
    /\ result_raw' = WorkerRaw(type, current_kspace, fraction', sigma_fraction')
    /\ \E ref_max \in {WorkerRefMax(type, result_raw', current_image)} :
       \E result \in {normalize_by_reference(result_raw', ref_max)} :
           emitted' = [image |-> result,
                       sharpness |-> calculate_sharpness(result),
                       noise |-> calculate_noise(result, CORNER_FRAC),
                       mae |-> calculate_mae(current_image, result),
                       type |-> type]
    /\ mae_calls' = mae_calls \cup {<<"ProcessingThread.run", type>>}
    /\ pc' = "emitted"
    /\ UNCHANGED <<kspace, transformVars, callVars, metricVars, mask, partial_kspace,
                   lowpass_kspace, highpass_kspace, invoked, prefix, full_max, raws, imgs, files,
                   analysis, metrics_data, current_image, current_kspace,
                   processing_threads, signals, reconstructions, windowVars>>

NextPipeline ==
    \/ ProcessImage \/ ReconFull \/ ReconPartial \/ ReconLowpass \/ ReconHighpass
    \/ SaveReconstructions \/ AnalyzeDataset \/ AnalyzeDatasetLegacy
    \/ LoadImageFile
    \/ \E type \in ProcessingTypes : RunProcessing(type)

SpecPipeline == InitPipeline /\ [][NextPipeline]_vars

BatchStages == <<"full", "partial", "lowpass", "highpass", "saved">>
StageDone(i) == \E j \in i .. 5 : pc = BatchStages[j]

\* img is raw with every cell divided by D, or raw itself when D is 0
Scaled(img, raw, D) ==
    IF MagIsZero(D) THEN MagArrEq(img, raw)
    ELSE /\ img.h = raw.h /\ img.w = raw.w
         /\ \A p \in Cells(raw.h, raw.w) :
               EScale(raw.den, EMul(img.sq[p], D.sq)) = EScale(img.den * D.den, raw.sq[p])

\* C5: the four images of a Reconstruction Set are the raw variants divided
\* by one divisor, the maximum of the full raw reconstruction, in
\* reconstruct_all_versions and in ProcessingThread.run.
C5_SharedDivisor ==
    /\ StageDone(1) =>
          \A D \in {MagMax(reconstruct_image_from_kspace(kspace))} :
              /\ Scaled(imgs.full, raws.full, D)
              /\ StageDone(2) => Scaled(imgs.partial, raws.partial, D)
              /\ StageDone(3) => Scaled(imgs.lowpass, raws.lowpass, D)
              /\ StageDone(4) => Scaled(imgs.highpass, raws.highpass, D)
    /\ pc = "emitted" =>
          \A D \in {MagMax(reconstruct_image_from_kspace(current_kspace))} :
              Scaled(emitted.image, result_raw, D)

C5_Witness ==
    /\ pc = "saved"
    /\ ~MagIsZero(MagMax(raws.full)) /\ MagMax(raws.full) # MagOne
    /\ MagMax(raws.partial) # MagMax(raws.full)
    /\ ~MagIsZero(MagMax(raws.partial))
    /\ imgs.partial # raws.partial /\ imgs.lowpass # raws.lowpass

C5_WitnessGui ==
    /\ pc = "emitted" /\ emitted.type = "partial"
    /\ ~MagIsZero(MagMax(result_raw)) /\ MagMax(result_raw) # MagMax(current_image)

FullRecordByDefinition ==
    analysis \in {"npz", "png"} =>
        /\ metrics_data[1].name = "Full k-space"
        /\ metrics_data[1].error = ScalarZero
        /\ <<"analyze_dataset", "Full k-space">> \notin mae_calls

\* C10 as stated: every metric record of the full variant has error exactly
\* 0, set without computing it, in analyze_dataset and in the GUI worker.
C10_FullErrorNotComputed ==
    /\ FullRecordByDefinition
    /\ (pc = "emitted" /\ emitted.type = "full") =>
          /\ emitted.mae = ScalarZero
          /\ <<"ProcessingThread.run", "full">> \notin mae_calls

\* C10 amended: analyze_dataset sets the error of the full variant to 0
\* without calling calculate_mae; the GUI worker calls calculate_mae against
\* the loaded image for every processing type, the full one included.
C10_FullErrorAnalysisOnly ==
    /\ FullRecordByDefinition
    /\ pc = "emitted" => <<"ProcessingThread.run", emitted.type>> \in mae_calls

C10_Witness ==
    /\ analysis = "npz" /\ Len(metrics_data) = 4
    /\ metrics_data[1].name = "Full k-space" /\ metrics_data[1].error = ScalarZero
    /\ metrics_data[2].error # ScalarZero
    /\ <<"analyze_dataset", "Partial (50%)">> \in mae_calls

-----------------------------------------------------------------------------
(* Properties of the metrics.                                              *)

\* the integer whose square is cell p of a whole-number array
IntRoot(A, p) ==
    CHOOSE k \in 0 .. ECoef(A.sq[p], QZero)[1] : k * k = ECoef(A.sq[p], QZero)[1]
RECURSIVE IntSumSet(_)
IntSumSet(S) ==
    IF S = {} THEN 0
    ELSE LET x == CHOOSE y \in S : TRUE IN x[2] + IntSumSet(S \ {x})
SumAbsDiff(A, B) ==
    IntSumSet({<<p, AbsInt(IntRoot(A, p) - IntRoot(B, p))>> : p \in Cells(A.h, A.w)})

\* C11: calculate_mae(A, A) is 0, and for equal shapes calculate_mae(A, B) is
\* the sum of |A - B| over all positions divided by their number, hence
\* non-negative and the same for (B, A).
C11_MaeIsMeanAbsDiff ==
    (pc = "mae" /\ img1.h = img2.h /\ img1.w = img2.w) =>
        /\ mae.kind = "scalar" /\ mae.sym = {}
        /\ mae.exact[1] * (img1.h * img1.w) = mae.exact[2] * SumAbsDiff(img1, img2)
        /\ mae.exact[1] >= 0 /\ mae.exact[2] > 0
        /\ calculate_mae(img2, img1) = mae
        /\ calculate_mae(img1, img1) = ScalarZero
        /\ img1 = img2 => mae = ScalarZero

C11_Witness ==
    /\ pc = "mae" /\ img1.h = img2.h /\ img1.w = img2.w /\ img1.h * img1.w > 1
    /\ img1 # img2 /\ mae.kind = "scalar" /\ mae.exact[1] > 0

C11_WitnessSelf ==
    /\ pc = "mae" /\ img1 = img2 /\ img1.h * img1.w > 1
    /\ \E p \in Cells(img1.h, img1.w) : img1.sq[p] # EZero
    /\ mae = ScalarZero

\* C12 as stated: calculate_noise takes the top-left block of
\* max(1, round(H * f)) rows and max(1, round(W * f)) columns.
C12_NoiseCornerRounded ==
    pc = "noise" =>
        /\ noise.kind = "std"
        /\ noise.of.h = Max2(1, PyRound(img1.h, corner_frac))
        /\ noise.of.w = Max2(1, PyRound(img1.w, corner_frac))

\* C12 amended: for a corner fraction in (0, 1] the block has max(1, k) rows
\* and columns, k the largest integer not above H * f (W * f): the product
\* is truncated, not rounded; the block is the image's top-left corner.
C12_NoiseCornerTruncated ==
    pc = "noise" =>
        /\ noise.kind = "std"
        /\ \A d \in {<<img1.h, noise.of.h>>, <<img1.w, noise.of.w>>} :
              /\ d[2] >= 1 /\ d[2] <= d[1]
              /\ d[2] = 1 \/ d[2] * corner_frac[2] <= d[1] * corner_frac[1]
              /\ (d[2] + 1) * corner_frac[2] > d[1] * corner_frac[1]
        /\ DOMAIN noise.of.sq = Cells(noise.of.h, noise.of.w)
        /\ \A p \in Cells(noise.of.h, noise.of.w) : noise.of.sq[p] = img1.sq[p]
        /\ noise.of.den = img1.den

C12_Witness ==
    /\ pc = "noise" /\ noise.of.h = 2 /\ noise.of.h < img1.h
    /\ noise.of.h # Max2(1, PyRound(img1.h, corner_frac))

\* ---------------------------------------------------------------------
\* The filters as calls on array objects

\* mask = np.zeros_like(kspace, dtype=bool); mask[window] = True
PartialMask(h, w, f) ==
    Arr(h, w, 1, [p \in Cells(h, w) |-> IF p \in PartialWindow(h, w, f) THEN EInt(1) ELSE EZero])

FilterCallInPlace(h, k, m) ==
    [heap |-> [Append(h, m) EXCEPT ![k] = ArrMul(h[k], m)], ret |-> k]
\* a filter body: the mask m is a fresh array, and kspace * m is another
FilterCall(h, k, m) ==
    [heap |-> h \o <<m, ArrMul(h[k], m)>>, ret |-> Len(h) + 2]

InitFilterCalls ==
    /\ pc = "kspace"
    /\ heap \in {<<A>> : A \in FreqArrays}
    /\ heap0 = heap
    /\ arg_img = 1
    /\ arg_ref_max = None
    /\ ret = 0
    /\ fraction \in Fractions
    /\ sigma_fraction \in SigmaFractions
    /\ mask = None /\ partial_kspace = 0 /\ lowpass_kspace = 0 /\ highpass_kspace = 0
    /\ kspace = None
    /\ TransformIdle /\ MetricIdle /\ PipeIdle /\ GuiIdle /\ WindowIdle

CallPartial ==
    /\ pc = "kspace" /\ partial_kspace = 0
    /\ \E r \in {FilterCall(heap, arg_img,
                            PartialMask(heap[arg_img].h, heap[arg_img].w, fraction))} :
          /\ heap' = r.heap
          /\ ret' = r.ret
          /\ partial_kspace' = r.ret
    /\ UNCHANGED <<pc, pipeVars, guiVars, kspace, transformVars, metricVars, heap0, arg_img,
                   arg_ref_max, fraction, sigma_fraction, mask, lowpass_kspace,
                   highpass_kspace, windowVars>>

CallLowpass ==
    /\ pc = "kspace" /\ lowpass_kspace = 0
    /\ \E r \in {FilterCall(heap, arg_img,
                            gaussian_kspace_mask(heap[arg_img].h, heap[arg_img].w,
                                                 sigma_fraction))} :
          /\ heap' = r.heap
          /\ ret' = r.ret
          /\ lowpass_kspace' = r.ret
    /\ UNCHANGED <<pc, pipeVars, guiVars, kspace, transformVars, metricVars, heap0, arg_img,
                   arg_ref_max, fraction, sigma_fraction, mask, partial_kspace,
                   highpass_kspace, windowVars>>

\* the mask, then 1.0 - mask, then the product
CallHighpass ==
    /\ pc = "kspace" /\ highpass_kspace = 0
    /\ \E m \in {gaussian_kspace_mask(heap[arg_img].h, heap[arg_img].w, sigma_fraction)} :
       \E r \in {FilterCall(Append(heap, m), arg_img, OneMinus(m))} :
          /\ heap' = r.heap
          /\ ret' = r.ret
          /\ highpass_kspace' = r.ret
    /\ UNCHANGED <<pc, pipeVars, guiVars, kspace, transformVars, metricVars, heap0, arg_img,
                   arg_ref_max, fraction, sigma_fraction, mask, partial_kspace,
                   lowpass_kspace, windowVars>>

NextFilterCalls == CallPartial \/ CallLowpass \/ CallHighpass

SpecFilterCalls == InitFilterCalls /\ [][NextFilterCalls]_vars

FilterReturns == {partial_kspace, lowpass_kspace, highpass_kspace} \ {0}

\* C13: simulate_partial_kspace, apply_lowpass_filter and
\* apply_highpass_filter each return a new array of the input's shape and
\* leave the input array as it was; called one after another, in any order,
\* on the same k-space array, each returns the filter of the original data.
C13_FiltersLeaveInput ==
    /\ \A id \in DOMAIN heap0 : heap[id] = heap0[id]
    /\ \A r \in FilterReturns :
          /\ r \in DOMAIN heap /\ r \notin DOMAIN heap0
          /\ heap[r].h = heap0[arg_img].h /\ heap[r].w = heap0[arg_img].w
          /\ DOMAIN heap[r].a = Cells(heap0[arg_img].h, heap0[arg_img].w)
    /\ Len(heap) = Len(heap0) + 2 * Cardinality(FilterReturns)
                       + (IF highpass_kspace # 0 THEN 1 ELSE 0)
    /\ partial_kspace # 0 =>
          heap[partial_kspace] = simulate_partial_kspace(heap0[arg_img], fraction)
    /\ lowpass_kspace # 0 =>
          heap[lowpass_kspace] = apply_lowpass_filter(heap0[arg_img], sigma_fraction)
    /\ highpass_kspace # 0 =>
          heap[highpass_kspace] = apply_highpass_filter(heap0[arg_img], sigma_fraction)

C13_Witness ==
    /\ Cardinality(FilterReturns) = 3
    /\ NonZeroArr(heap[arg_img]) /\ heap[arg_img].h > 2
    /\ heap[partial_kspace] # heap[arg_img]
    /\ heap[lowpass_kspace] # heap[arg_img]
    /\ heap[highpass_kspace] # heap[arg_img]
    /\ partial_kspace < lowpass_kspace

\* ---------------------------------------------------------------------
\* The degenerate input

ZeroFreq(K) == \A p \in Cells(K.h, K.w) : K.a[p] = EZero
\* an all-zero image of finite values: a zero denominator is 0 / 0
ZeroImage(A, h, w) ==
    /\ A.h = h /\ A.w = w /\ A.den > 0
    /\ \A p \in Cells(h, w) : A.sq[p] = EZero

\* C14: with an all-zero frequency array the reference maximum is 0, every
\* raw variant and every normalized variant is the all-zero image (the
\* normalized one is the raw one unchanged), and the images analyze_dataset
\* re-normalizes from the bundle are all-zero too: no division by zero.
C14_ZeroInput ==
    /\ (StageDone(1) /\ ZeroFreq(kspace)) =>
          /\ MagIsZero(full_max)
          /\ \A i \in 1 .. 4 :
                StageDone(i) =>
                    /\ ZeroImage(raws[BatchStages[i]], kspace.h, kspace.w)
                    /\ imgs[BatchStages[i]] = raws[BatchStages[i]]
    /\ (pc = "analyzed" /\ analysis = "npz") =>
          (ZeroFreq(kspace) =>
              \A i \in 1 .. 4 : ZeroImage(metrics_data[i].sharpness.of, kspace.h, kspace.w))

C14_Witness ==
    /\ pc = "analyzed" /\ analysis = "npz"
    /\ ZeroFreq(kspace) /\ kspace.h > 1 /\ kspace.w > 1
    /\ \A i \in 1 .. 4 : ZeroImage(metrics_data[i].sharpness.of, kspace.h, kspace.w)

\* ---------------------------------------------------------------------
\* The order of one invocation

InvocationPcs == <<"kspace", "full", "partial", "lowpass", "highpass", "saved">>
Recon(k) == reconstruct_image_from_kspace(k)

\* what each finished stage has produced, every variant from the k-space
\* passed to the invocation
C15_Derived ==
    /\ StageDone(1) =>
          /\ raws.full = Recon(kspace)
          /\ full_max = FullMax(raws.full)
          /\ imgs.full = normalize_by_reference(raws.full, full_max)
    /\ StageDone(2) =>
          /\ raws.partial = Recon(simulate_partial_kspace(kspace, PARTIAL_KSpace_FRACTION))
          /\ imgs.partial = normalize_by_reference(raws.partial, full_max)
    /\ StageDone(3) =>
          /\ raws.lowpass = Recon(apply_lowpass_filter(kspace, LOWPASS_SIGMA_FRACTION))
          /\ imgs.lowpass = normalize_by_reference(raws.lowpass, full_max)
    /\ StageDone(4) =>
          /\ raws.highpass = Recon(apply_highpass_filter(kspace, HIGHPASS_SIGMA_FRACTION))
          /\ imgs.highpass = normalize_by_reference(raws.highpass, full_max)
    /\ \A i \in 1 .. 4 :
          StageDone(i) <=> (pc \in {InvocationPcs[j] : j \in 1 .. 6}
                               /\ Exists(files, RESULTS_RAW_DIR, PngNames(prefix)[i]))
    /\ pc = "saved" <=>
          (pc \in {InvocationPcs[j] : j \in 1 .. 6}
              /\ Exists(files, RESULTS_RAW_DIR, prefix \o "_recons.npz"))
    /\ pc = "saved" =>
          Load(files, RESULTS_RAW_DIR, prefix \o "_recons.npz")
              = [full_raw |-> raws.full, partial_raw |-> raws.partial,
                 lowpass_raw |-> raws.lowpass, highpass_raw |-> raws.highpass]

\* a step of the invocation goes to the next stage and to no other, writes
\* one file, and keeps the k-space and the reference maximum
C15_Step ==
    (pc \in {InvocationPcs[j] : j \in 1 .. 6} /\ pc' \notin {"analyzed", "analyzed_legacy"}) =>
        \E i \in 1 .. 5 :
            /\ pc = InvocationPcs[i] /\ pc' = InvocationPcs[i + 1]
            /\ kspace' = kspace
            /\ files \subseteq files' /\ Cardinality(files') = Cardinality(files) + 1
            /\ i > 1 => full_max' = full_max

\* C15: one invocation of reconstruct_all_versions is a straight line: full
\* reconstruction and its maximum first, then full, partial, low-pass and
\* high-pass each derived from the original k-space, reconstructed and
\* normalized once, in that order, then the raw bundle; no stage is
\* repeated or skipped and nothing follows the bundle.
C15_LinearSequence == []C15_Derived /\ [][C15_Step]_vars

C15_Witness ==
    /\ pc = "saved" /\ kspace.h > 1 /\ kspace.w > 1 /\ ~ZeroFreq(kspace)
    /\ Cardinality(files) = 5
    /\ raws.partial # raws.full /\ raws.lowpass # raws.highpass

\* ---------------------------------------------------------------------
\* Invocations of the pipeline, one after another

DatasetPrefixes == {"shepp_logan", "mri_image_slice000"}
\* the images given to the invocations: small, all-zero included
InvocationImages == {Ramp(h, w, v) : h \in 1 .. 2, w \in 1 .. 2, v \in 0 .. 1}

\* save_kspace: the .npz among its outputs (the three renderings are left out)
save_kspace(fs, pre, k) ==
    {f \in fs : ~(f.dir = RESULTS_RAW_DIR \o "/" \o pre /\ f.name = pre \o "_kspace.npz")}
        \cup {[dir |-> RESULTS_RAW_DIR \o "/" \o pre, name |-> pre \o "_kspace.npz",
               content |-> [kspace |-> k]]}

\* reconstruct_all_versions from its call to its return: the files it leaves
reconstruct_all_versions(fs, k, pre) ==
    LET full_raw == reconstruct_image_from_kspace(k)
        max == FullMax(full_raw)
        partial_raw ==
            reconstruct_image_from_kspace(simulate_partial_kspace(k, PARTIAL_KSpace_FRACTION))
        lowpass_raw ==
            reconstruct_image_from_kspace(apply_lowpass_filter(k, LOWPASS_SIGMA_FRACTION))
        highpass_raw ==
            reconstruct_image_from_kspace(apply_highpass_filter(k, HIGHPASS_SIGMA_FRACTION))
        fs1 == save_reconstructed_image(fs, pre \o "_recon_full", VariantImg(full_raw, max))
        fs2 == save_reconstructed_image(fs1, pre \o "_recon_partial",
                                        VariantImg(partial_raw, max))
        fs3 == save_reconstructed_image(fs2, pre \o "_recon_lowpass",
                                        VariantImg(lowpass_raw, max))
        fs4 == save_reconstructed_image(fs3, pre \o "_recon_highpass",
                                        VariantImg(highpass_raw, max))
    IN  save_reconstructions(fs4, pre, [full |-> full_raw, partial |-> partial_raw,
                                        lowpass |-> lowpass_raw, highpass |-> highpass_raw])

InitInvocations ==
    /\ pc = "ready"
    /\ files = {} /\ invoked = <<>>
    /\ prefix = None /\ full_max = None /\ raws = None /\ imgs = None
    /\ analysis = None /\ metrics_data = <<>> /\ mae_calls = {}
    /\ kspace = None
    /\ TransformIdle /\ FilterIdle /\ CallIdle /\ MetricIdle /\ GuiIdle /\ WindowIdle

\* process_phantom / process_mri_image
ProcessDataset(pre, img) ==
    /\ pc = "ready"
    /\ \E k \in {image_to_kspace(img)} :
          /\ kspace' = k
          /\ files' = reconstruct_all_versions(save_kspace(files, pre, k), k, pre)
          /\ invoked' = [q \in DOMAIN invoked \cup {pre} |-> IF q = pre THEN k ELSE invoked[q]]
    /\ prefix' = pre
    /\ UNCHANGED <<pc, transformVars, filterVars, callVars, metricVars, guiVars, full_max,
                   raws, imgs, analysis, metrics_data, mae_calls, windowVars>>

NextInvocations == \E pre \in DatasetPrefixes : \E img \in InvocationImages : ProcessDataset(pre, img)

SpecInvocations == InitInvocations /\ [][NextInvocations]_vars

ArtifactNames(pre) ==
    {PngNames(pre)[i] : i \in 1 .. 4} \cup {pre \o "_recons.npz", pre \o "_kspace.npz"}
ArtifactsOf(fs, pre) == {f \in fs : f.name \in ArtifactNames(pre)}

\* C16: after any sequence of invocations the artifacts stored for a prefix
\* are the ones an invocation on an empty store computes from the k-space
\* that prefix was last given, whatever was processed before, between or
\* after under another prefix; a prefix never processed has no artifact.
C16_IndependentInvocations ==
    /\ \A pre \in DOMAIN invoked :
          ArtifactsOf(files, pre)
              = reconstruct_all_versions(save_kspace({}, pre, invoked[pre]), invoked[pre], pre)
    /\ \A pre \in DatasetPrefixes \ DOMAIN invoked : ArtifactsOf(files, pre) = {}
    /\ files = UNION {ArtifactsOf(files, pre) : pre \in DOMAIN invoked}

C16_Witness ==
    /\ DOMAIN invoked = DatasetPrefixes
    /\ prefix = "shepp_logan"
    /\ ~ZeroFreq(invoked["shepp_logan"]) /\ ~ZeroFreq(invoked["mri_image_slice000"])
    /\ invoked["shepp_logan"].h # invoked["mri_image_slice000"].h
    /\ Cardinality(ArtifactsOf(files, "mri_image_slice000")) = 6

\* ---------------------------------------------------------------------
\* The GUI: the main thread and its ProcessingThread workers

GuiImages == {Ramp(1, 2, 1), Ramp(2, 2, 1)}
\* the spin boxes as created: <<partial percent, sigma per mille>>
\* QSpinBox.setValue: the value is brought into [lo, hi]
SetValue(lo, hi, v) == IF v < lo THEN lo ELSE IF v > hi THEN hi ELSE v
InitialSpin ==
    <<SetValue(1, 100, (PARTIAL_KSpace_FRACTION[1] * 100) \div PARTIAL_KSpace_FRACTION[2]),
      SetValue(1, 20, (LOWPASS_SIGMA_FRACTION[1] * 1000) \div LOWPASS_SIGMA_FRACTION[2])>>

InitGui ==
    /\ pc = "window"
    /\ heap = <<>> /\ heap0 = <<>> /\ arg_img = 0 /\ arg_ref_max = None /\ ret = 0
    /\ current_image = 0 /\ current_kspace = 0   \* 0: None, else the id of an array
    /\ result_raw = None /\ emitted = None
    /\ processing_threads = <<>> /\ signals = <<>> /\ reconstructions = <<>>
    /\ kspace = None
    /\ TransformIdle /\ FilterIdle /\ MetricIdle /\ PipeIdle /\ WindowIdle

\* load_image_file / load_phantom: two new arrays, bound to the window's fields
LoadImage(img) ==
    /\ Len(heap) < 2 * Cardinality(GuiImages)   \* as many loads as there are images
    /\ \E n \in {NormalizeImage(img)} :
          heap' = heap \o <<Abs(n), image_to_kspace(n)>>
    /\ current_image' = Len(heap) + 1
    /\ current_kspace' = Len(heap) + 2
    /\ reconstructions' = <<>>
    /\ UNCHANGED <<pc, kspace, transformVars, filterVars, metricVars, pipeVars, heap0, arg_img,
                   arg_ref_max, ret, result_raw, emitted, processing_threads, signals, windowVars>>

\* process_image: the thread is given the window's arrays and the spin box values
StartProcessing(type) ==
    /\ current_image # 0 /\ current_kspace # 0
    /\ Len(processing_threads) < MaxThreads
    /\ \E spin \in {InitialSpin} :
          processing_threads' = Append(processing_threads,
              [original_image |-> current_image, image |-> current_image,
               kspace |-> current_kspace, processing_type |-> type,
               partial_fraction |-> OrDefault(QNorm(spin[1], 100), PARTIAL_KSpace_FRACTION),
               sigma_fraction |-> OrDefault(QNorm(spin[2], 1000), LOWPASS_SIGMA_FRACTION),
               running |-> TRUE])
    /\ UNCHANGED <<pc, kspace, transformVars, filterVars, callVars, metricVars, pipeVars,
                   current_image, current_kspace, result_raw, emitted, signals,
                   reconstructions, windowVars>>

WorkerInputsFromWindow(t) ==
    [original_image |-> heap[current_image], image |-> heap[current_image],
     kspace |-> heap[current_kspace]]
\* the arrays run() reads: the thread's own fields
WorkerInputs(t) ==
    [original_image |-> heap[t.original_image], image |-> heap[t.image],
     kspace |-> heap[t.kspace]]

\* the dict run() builds from its inputs
WorkerResult(t, in) ==
    LET raw == WorkerRaw(t.processing_type, in.kspace, t.partial_fraction, t.sigma_fraction)
        result == normalize_by_reference(raw, WorkerRefMax(t.processing_type, raw, in.image))
    IN  [image |-> result,
         sharpness |-> calculate_sharpness(result),
         noise |-> calculate_noise(result, CORNER_FRAC),
         mae |-> calculate_mae(in.original_image, result),
         type |-> t.processing_type]

\* ProcessingThread.run: one finished signal, or one error signal on an exception
Run(i) ==
    /\ i \in DOMAIN processing_threads
    /\ processing_threads[i].running
    /\ \E r \in {WorkerResult(processing_threads[i], WorkerInputs(processing_threads[i]))} :
          signals' = Append(signals,
              IF r.mae.kind = "ValueError"
              THEN [signal |-> "error", thread |-> i, result |-> "ValueError"]
              ELSE [signal |-> "finished", thread |-> i, result |-> r])
    /\ processing_threads' = [processing_threads EXCEPT ![i].running = FALSE]
    /\ UNCHANGED <<pc, kspace, transformVars, filterVars, callVars, metricVars, pipeVars,
                   current_image, current_kspace, result_raw, emitted, reconstructions, windowVars>>

\* on_processing_finished / on_processing_error, in the main thread
Deliver ==
    /\ signals # <<>>
    /\ signals' = Tail(signals)
    /\ reconstructions' =
          IF Head(signals).signal = "finished"
          THEN [ty \in DOMAIN reconstructions \cup {Head(signals).result.type} |->
                   IF ty = Head(signals).result.type THEN Head(signals).result.image
                   ELSE reconstructions[ty]]
          ELSE reconstructions
    /\ UNCHANGED <<pc, kspace, transformVars, filterVars, callVars, metricVars, pipeVars,
                   current_image, current_kspace, result_raw, emitted, processing_threads, windowVars>>

NextGui ==
    \/ \E img \in GuiImages : LoadImage(img)
    \/ \E type \in ProcessingTypes : StartProcessing(type)
    \/ \E i \in 1 .. MaxThreads : Run(i)
    \/ Deliver

SpecGui == InitGui /\ [][NextGui]_vars

WindowFields == <<current_image, current_kspace, reconstructions>>
SignalsOf(i) == {j \in DOMAIN signals : signals[j].thread = i}

\* the queued signals carry what run() computes from the arrays the thread
\* was given; a thread has emitted at most once, and only when it has run
C17_Handoff ==
    /\ \A j \in DOMAIN signals :
          /\ signals[j].thread \in DOMAIN processing_threads
          /\ ~processing_threads[signals[j].thread].running
          /\ signals[j].signal \in {"finished", "error"}
          /\ signals[j].signal = "finished" =>
                signals[j].result =
                    WorkerResult(processing_threads[signals[j].thread],
                                 WorkerInputs(processing_threads[signals[j].thread]))
    /\ \A i \in DOMAIN processing_threads :
          /\ Cardinality(SignalsOf(i)) <= 1
          /\ processing_threads[i].running => SignalsOf(i) = {}

\* a step never changes an array; the step in which a thread emits leaves the
\* window's fields and every thread's inputs as they were, and adds one signal
C17_WorkerStep ==
    /\ \A id \in DOMAIN heap : id \in DOMAIN heap' /\ heap'[id] = heap[id]
    /\ Len(signals') > Len(signals) =>
          /\ WindowFields' = WindowFields
          /\ heap' = heap
          /\ Len(signals') = Len(signals) + 1
          /\ \A i \in DOMAIN processing_threads :
                /\ processing_threads'[i].kspace = processing_threads[i].kspace
                /\ processing_threads'[i].image = processing_threads[i].image
                /\ processing_threads'[i].original_image = processing_threads[i].original_image

\* C17: a ProcessingThread reads only the arrays and parameters it was
\* constructed with (which no one changes afterwards, whatever the main
\* thread loads meanwhile), writes no field of the main window, and reaches
\* the main thread only through its one finished or error signal.
C17_OneShotHandoff == []C17_Handoff /\ [][C17_WorkerStep]_vars

\* a thread emits after the window has loaded another image
C17_Witness ==
    /\ signals # <<>>
    /\ processing_threads[signals[1].thread].kspace # current_kspace
    /\ heap[processing_threads[signals[1].thread].kspace] # heap[current_kspace]
    /\ signals[1].result.type = "partial"

\* ---------------------------------------------------------------------
\* Calls that leave the optional parameter out

CoreOperations ==
    {"gaussian_kspace_mask", "simulate_partial_kspace", "apply_lowpass_filter",
     "apply_highpass_filter"}

\* the default written in each signature
DefaultOf(op) ==
    CASE op = "gaussian_kspace_mask" -> <<1, 10>>
      [] op = "simulate_partial_kspace" -> <<1, 2>>
      [] op = "apply_lowpass_filter" -> <<1, 20>>
      [] op = "apply_highpass_filter" -> <<1, 20>>

InitDefaults ==
    /\ pc = "kspace"
    /\ kspace \in FreqArrays
    /\ fraction = None /\ sigma_fraction = None
    /\ mask = None /\ partial_kspace = None /\ lowpass_kspace = None
    /\ highpass_kspace = None
    /\ TransformIdle /\ CallIdle /\ MetricIdle /\ PipeIdle /\ GuiIdle /\ WindowIdle

\* op(kspace) or op(kspace.shape): the parameter takes its default
CallWithDefault(op) ==
    /\ pc = "kspace"
    /\ fraction' = IF op = "simulate_partial_kspace" THEN DefaultOf(op) ELSE fraction
    /\ sigma_fraction' = IF op # "simulate_partial_kspace" THEN DefaultOf(op) ELSE sigma_fraction
    /\ mask' = IF op = "gaussian_kspace_mask"
               THEN gaussian_kspace_mask(kspace.h, kspace.w, DefaultOf(op)) ELSE mask
    /\ partial_kspace' = IF op = "simulate_partial_kspace"
                         THEN simulate_partial_kspace(kspace, DefaultOf(op))
                         ELSE partial_kspace
    /\ lowpass_kspace' = IF op = "apply_lowpass_filter"
                         THEN apply_lowpass_filter(kspace, DefaultOf(op)) ELSE lowpass_kspace
    /\ highpass_kspace' = IF op = "apply_highpass_filter"
                          THEN apply_highpass_filter(kspace, DefaultOf(op))
                          ELSE highpass_kspace
    /\ pc' = op
    /\ UNCHANGED <<pipeVars, guiVars, kspace, transformVars, callVars, metricVars, windowVars>>

NextDefaults == \E op \in CoreOperations : CallWithDefault(op)

SpecDefaults == InitDefaults /\ [][NextDefaults]_vars

\* C18: called without the optional parameter, gaussian_kspace_mask,
\* apply_lowpass_filter and apply_highpass_filter use a sigma fraction of
\* 0.05 and simulate_partial_kspace a fraction of 0.5, the values the
\* configured pipeline parameters have.
C18_Defaults ==
    /\ PARTIAL_KSpace_FRACTION = <<1, 2>>
    /\ LOWPASS_SIGMA_FRACTION = <<1, 20>> /\ HIGHPASS_SIGMA_FRACTION = <<1, 20>>
    /\ pc = "simulate_partial_kspace" =>
          /\ fraction = PARTIAL_KSpace_FRACTION
          /\ partial_kspace = simulate_partial_kspace(kspace, <<1, 2>>)
    /\ pc = "apply_lowpass_filter" =>
          /\ sigma_fraction = LOWPASS_SIGMA_FRACTION
          /\ lowpass_kspace = apply_lowpass_filter(kspace, <<1, 20>>)
    /\ pc = "apply_highpass_filter" =>
          /\ sigma_fraction = HIGHPASS_SIGMA_FRACTION
          /\ highpass_kspace = apply_highpass_filter(kspace, <<1, 20>>)
    /\ pc = "gaussian_kspace_mask" =>
          /\ sigma_fraction = <<1, 20>>
          /\ mask = gaussian_kspace_mask(kspace.h, kspace.w, <<1, 20>>)

\* the same without the mask's own default: what the code does satisfy
C18_WrapperDefaults ==
    /\ PARTIAL_KSpace_FRACTION = <<1, 2>>
    /\ LOWPASS_SIGMA_FRACTION = <<1, 20>> /\ HIGHPASS_SIGMA_FRACTION = <<1, 20>>
    /\ pc = "simulate_partial_kspace" =>
          partial_kspace = simulate_partial_kspace(kspace, PARTIAL_KSpace_FRACTION)
    /\ pc = "apply_lowpass_filter" =>
          lowpass_kspace = apply_lowpass_filter(kspace, LOWPASS_SIGMA_FRACTION)
    /\ pc = "apply_highpass_filter" =>
          highpass_kspace = apply_highpass_filter(kspace, HIGHPASS_SIGMA_FRACTION)
    /\ pc = "gaussian_kspace_mask" =>
          /\ sigma_fraction = <<1, 10>>
          /\ mask # gaussian_kspace_mask(kspace.h, kspace.w, <<1, 20>>)

\* ---------------------------------------------------------------------
\* The analysis after the pipeline

\* analyze_dataset called when reconstruct_all_versions has returned
C19_Step ==
    (pc = "saved" /\ pc' = "analyzed") =>
        /\ analysis' = "npz"
        /\ \A i \in 1 .. 4 :
              /\ metrics_data'[i].name = AnalysisNames[i]
              /\ metrics_data'[i].sharpness.of
                    = MagArrDiv(raws[BatchStages[i]], RefMaxOrOne(raws.full))
              /\ metrics_data'[i] = MetricRecord(AnalysisNames[i],
                                                 metrics_data'[1].sharpness.of,
                                                 metrics_data'[i].sharpness.of)

\* C19: once reconstruct_all_versions(kspace, prefix) has returned, the
\* bundle is where analyze_dataset(prefix) looks for it, and the analysis
\* takes its four images from that bundle (the raw arrays of the invocation
\* divided by the full maximum), not from the PNGs and not the error return.
C19_AnalysisFindsBundle ==
    /\ [](pc = "saved" => Exists(files, RESULTS_RAW_DIR, prefix \o "_recons.npz"))
    /\ [][C19_Step]_vars

C19_Witness ==
    /\ pc = "analyzed" /\ analysis = "npz"
    /\ ~ZeroFreq(kspace) /\ kspace.h > 1 /\ kspace.w > 1
    /\ Exists(files, RESULTS_RAW_DIR, PngNames(prefix)[1])
    /\ Exists(files, RESULTS_ANALYSIS_DIR, prefix \o "_report.txt")
    /\ metrics_data[2].sharpness.of # metrics_data[1].sharpness.of

\* ---------------------------------------------------------------------
\* The lookup of analyze_dataset

\* one call of analyze_dataset reading directory dir: the bundle first, the
\* PNGs only without it, and the error return when the full PNG is missing too
Lookup(dir) ==
    /\ Exists(files, dir, prefix \o "_recons.npz") => analysis' = "npz"
    /\ analysis' = "png" =>
          /\ ~Exists(files, dir, prefix \o "_recons.npz")
          /\ \A i \in 1 .. 4 : Exists(files, dir, PngNames(prefix)[i])
    /\ (~Exists(files, dir, prefix \o "_recons.npz")
           /\ ~Exists(files, dir, PngNames(prefix)[1])) =>
          /\ analysis' = "error"
          /\ metrics_data' = metrics_data /\ mae_calls' = mae_calls
          /\ files' = files
    /\ analysis' \in {"npz", "png"} =>
          /\ Len(metrics_data') = 4
          /\ files # files'

\* C20: analyze_dataset(prefix) uses the raw bundle when it exists, the four
\* PNGs only when it does not, and when neither the bundle nor the full PNG
\* exists it reports the error and returns: no metric, no figure, no report.
\* Both copies of analyze_dataset are held to it.
C20_ExplicitLookup ==
    [][/\ (pc # "analyzed" /\ pc' = "analyzed") => Lookup(RESULTS_RAW_DIR)
       /\ (pc # "analyzed_legacy" /\ pc' = "analyzed_legacy") => Lookup(OUT_DIR)]_vars

\* the same for the package's analyze_dataset alone
C20_PackageLookup ==
    [][(pc # "analyzed" /\ pc' = "analyzed") => Lookup(RESULTS_RAW_DIR)]_vars

\* ---------------------------------------------------------------------
\* The zero-frequency component under the filters

\* C26: for every shape and sigma fraction, apply_lowpass_filter leaves the
\* component at (H//2, W//2) as it was and apply_highpass_filter makes it
\* exactly zero.
C26_DcUnderGaussian ==
    pc = "highpass" =>
        /\ lowpass_kspace.a[Center(kspace)] = kspace.a[Center(kspace)]
        /\ highpass_kspace.a[Center(kspace)] = EZero

\* C27: simulate_partial_kspace(F, 1.0) equals F at every cell, for odd and
\* even heights and widths.
C27_FullFractionKeepsAll ==
    (PartialDone /\ fraction = <<1, 1>>) => partial_kspace = kspace

\* C28: for every fraction in (0, 1] and every shape the window kept by
\* simulate_partial_kspace holds (H//2, W//2), so the component there is
\* retained and a k-space that is non-zero there is not turned into zeros.
C28_PartialKeepsDc ==
    PartialDone =>
        /\ Center(kspace) \in PartialWindow(kspace.h, kspace.w, fraction)
        /\ partial_kspace.a[Center(kspace)] = kspace.a[Center(kspace)]
        /\ kspace.a[Center(kspace)] # EZero => NonZeroArr(partial_kspace)

\* ---------------------------------------------------------------------
\* The analysis against the pipeline run it reads

\* C29: the four images analyze_dataset derives from the stored bundle are
\* the four normalized images reconstruct_all_versions computed in the run
\* that stored it, the all-zero input included.
C29_SameNormalizedImages ==
    (pc = "analyzed" /\ analysis = "npz") =>
        \A i \in 1 .. 4 : metrics_data[i].sharpness.of = imgs[BatchStages[i]]

C29_Witness ==
    /\ pc = "analyzed" /\ analysis = "npz"
    /\ ~MagIsZero(full_max) /\ full_max # MagOne
    /\ imgs.partial # raws.partial
    /\ metrics_data[2].sharpness.of = imgs.partial
    /\ metrics_data[4].sharpness.of = imgs.highpass

C29_WitnessZero ==
    /\ pc = "analyzed" /\ analysis = "npz" /\ MagIsZero(full_max)
    /\ metrics_data[1].sharpness.of = imgs.full

\* ---------------------------------------------------------------------
\* ProcessingThread.run on its own: any processing type, any ground truth

\* what run() emits without its try / except: nothing when it raises
runUncaught(t, in) ==
    IF t.processing_type \notin ProcessingTypes THEN <<>>
    ELSE LET r == WorkerResult(t, in)
         IN  IF r.mae.kind = "ValueError" THEN <<>>
             ELSE <<[signal |-> "finished", result |-> r]>>
\* the signals run() emits, in order: the else branch raises ValueError, and so
\* does calculate_mae on shapes that do not broadcast; except Exception emits
\* error(str(e)); otherwise finished(dict) is the last statement of the try
run(t, in) ==
    IF t.processing_type \notin ProcessingTypes
    THEN <<[signal |-> "error",
            result |-> "Unknown processing type: " \o t.processing_type]>>
    ELSE LET r == WorkerResult(t, in)
         IN  IF r.mae.kind = "ValueError"
             THEN <<[signal |-> "error", result |-> "ValueError"]>>
             ELSE <<[signal |-> "finished", result |-> r]>>

WorkerTypes == ProcessingTypes \cup {"sharpen"}
\* ground truths of another shape than the images of GuiImages
ForeignTruths == {Ramp(1, 3, 1), Ramp(3, 1, 1)}

InitWorker ==
    /\ pc = "constructed"
    /\ \E img \in GuiImages, truth \in ForeignTruths :
       \E n \in {NormalizeImage(img)} :
          heap = <<Abs(n), image_to_kspace(n), Abs(truth)>>
    /\ \E type \in WorkerTypes, original \in {1, 3}, spin \in SpinSettings :
          processing_threads =
              <<[original_image |-> original, image |-> 1, kspace |-> 2,
                 processing_type |-> type,
                 partial_fraction |-> OrDefault(QNorm(spin[1], 100), PARTIAL_KSpace_FRACTION),
                 sigma_fraction |-> OrDefault(QNorm(spin[2], 1000), LOWPASS_SIGMA_FRACTION),
                 running |-> TRUE]>>
    /\ heap0 = <<>> /\ arg_img = 0 /\ arg_ref_max = None /\ ret = 0
    /\ current_image = 0 /\ current_kspace = 0
    /\ result_raw = None /\ emitted = None
    /\ signals = <<>> /\ reconstructions = <<>>
    /\ kspace = None
    /\ TransformIdle /\ FilterIdle /\ MetricIdle /\ PipeIdle /\ WindowIdle

RunWorker ==
    /\ pc = "constructed"
    /\ signals' = run(processing_threads[1], WorkerInputs(processing_threads[1]))
    /\ processing_threads' = [processing_threads EXCEPT ![1].running = FALSE]
    /\ pc' = "ran"
    /\ UNCHANGED <<kspace, transformVars, filterVars, callVars, metricVars, pipeVars,
                   current_image, current_kspace, result_raw, emitted, reconstructions, windowVars>>

NextWorker == RunWorker

SpecWorker == InitWorker /\ [][NextWorker]_vars

\* the computation of a thread succeeds: a button's type, and a ground truth
\* whose shape broadcasts against the reconstruction's
Succeeds(t) ==
    /\ t.processing_type \in ProcessingTypes
    /\ BroadcastDim(heap[t.original_image].h, heap[t.kspace].h) # 0
    /\ BroadcastDim(heap[t.original_image].w, heap[t.kspace].w) # 0

\* C22: a run that is not terminated emits exactly one signal: finished with
\* the image, its sharpness, noise and MAE and the type when the type is one
\* of the four and the computation succeeds, error alone for an unknown type
\* or an exception in the computation.
C22_OneSignalPerRun ==
    pc = "ran" =>
        /\ Len(signals) = 1
        /\ signals[1].signal \in {"finished", "error"}
        /\ Succeeds(processing_threads[1]) =>
              /\ signals[1].signal = "finished"
              /\ DOMAIN signals[1].result = {"image", "sharpness", "noise", "mae", "type"}
              /\ signals[1].result.type = processing_threads[1].processing_type
              /\ signals[1].result.image.h = heap[2].h
              /\ signals[1].result.image.w = heap[2].w
              /\ signals[1].result.sharpness = calculate_sharpness(signals[1].result.image)
              /\ signals[1].result.noise = calculate_noise(signals[1].result.image, CORNER_FRAC)
              /\ signals[1].result.mae
                    = calculate_mae(heap[processing_threads[1].original_image],
                                    signals[1].result.image)
              /\ signals[1].result.mae.kind = "scalar"
        /\ ~Succeeds(processing_threads[1]) => signals[1].signal = "error"

C22_Witness ==
    /\ pc = "ran"
    /\ processing_threads[1].processing_type = "sharpen"
    /\ Len(signals) = 1 /\ signals[1].signal = "error"

C22_WitnessException ==
    /\ pc = "ran"
    /\ processing_threads[1].processing_type = "lowpass"
    /\ processing_threads[1].original_image = 3
    /\ Len(signals) = 1 /\ signals[1].signal = "error"

C22_WitnessFinished ==
    /\ pc = "ran"
    /\ processing_threads[1].processing_type = "partial"
    /\ Len(signals) = 1 /\ signals[1].signal = "finished"
    /\ ~ZeroFreq(heap[2])

\* ---------------------------------------------------------------------
\* The window: its handlers, the worker threads and the main thread's queue.
\* Arrays are named, not computed: an image is the number of the load that
\* produced it, a reconstruction is the term of the thread that computed it.

MaxRequests == 2    \* most processing requests (and image loads) in one run
MaxDepth == 1       \* most handlers inside processEvents() at a time

\* the values typed into the spin boxes: <<partial percent, sigma per mille>>
SpinInputs == {<<100, 10>>, <<1, 50>>}

Cleared == [title |-> "Select a Method", image |-> {}, diff |-> {}, metrics |-> {}]

DisplayName(type) ==
    CASE type = "full" -> "Full K-Space (Ideal Reconstruction)"
      [] type = "partial" -> "Partial K-Space Reconstruction"
      [] type = "lowpass" -> "Low-Pass Filtered Reconstruction"
      [] type = "highpass" -> "High-Pass Filtered Reconstruction"

\* the result dict of a thread: what was computed, from which image
ResultOf(t) ==
    [type |-> t.processing_type,
     image |-> [type |-> t.processing_type, of |-> t.kspace, ref |-> t.image,
                partial_fraction |-> t.partial_fraction,
                sigma_fraction |-> t.sigma_fraction],
     truth |-> t.original_image]

Frames(op) == {j \in DOMAIN stack : stack[j].op = op}

InitWindow ==
    /\ pc = "window"
    /\ current_image = 0 /\ current_kspace = 0   \* 0: None, else the number of the load
    /\ result_raw = None /\ emitted = None
    /\ processing_threads = <<>> /\ signals = <<>> /\ reconstructions = <<>>
    /\ stack = <<>> /\ progress_bar = FALSE /\ display = Cleared /\ accepted = FALSE
    /\ partial_spinbox = InitialSpin[1] /\ sigma_spinbox = InitialSpin[2]
    /\ kspace = None
    /\ TransformIdle /\ FilterIdle /\ CallIdle /\ MetricIdle /\ PipeIdle

\* the user edits the two spin boxes
SetSpin(spin) ==
    /\ pc = "window" /\ ~accepted
    /\ partial_spinbox' = SetValue(1, 100, spin[1])
    /\ sigma_spinbox' = SetValue(1, 20, spin[2])
    /\ UNCHANGED <<pc, kspace, transformVars, filterVars, callVars, metricVars, pipeVars,
                   guiVars, stack, progress_bar, display, accepted>>

\* load_phantom / load_mri_slice / load_image_file up to their processEvents()
BeginLoad ==
    /\ pc = "window" /\ ~accepted
    /\ Len(stack) < MaxDepth
    /\ current_image + Cardinality(Frames("load")) < MaxRequests
    /\ stack' = Append(stack, [op |-> "load", type |-> "none"])
    /\ UNCHANGED <<pc, kspace, transformVars, filterVars, callVars, metricVars, pipeVars,
                   guiVars, progress_bar, display, accepted, partial_spinbox, sigma_spinbox>>

\* ... and after it: new arrays, cleared panels, reconstructions reset
EndLoad ==
    /\ stack # <<>> /\ stack[Len(stack)].op = "load"
    /\ stack' = SubSeq(stack, 1, Len(stack) - 1)
    /\ current_image' = current_image + 1
    /\ current_kspace' = current_image + 1
    /\ display' = Cleared
    /\ reconstructions' = <<>>
    /\ UNCHANGED <<pc, kspace, transformVars, filterVars, callVars, metricVars, pipeVars,
                   result_raw, emitted, processing_threads, signals, progress_bar, accepted,
                   partial_spinbox, sigma_spinbox>>

\* process_image up to its processEvents(): the buttons are enabled by a load
BeginProcess(type) ==
    /\ pc = "window" /\ ~accepted
    /\ current_image # 0 /\ current_kspace # 0
    /\ Len(stack) < MaxDepth
    /\ Len(processing_threads) + Cardinality(Frames("process")) < MaxRequests
    /\ progress_bar' = TRUE
    /\ stack' = Append(stack, [op |-> "process", type |-> type])
    /\ UNCHANGED <<pc, kspace, transformVars, filterVars, callVars, metricVars, pipeVars,
                   guiVars, display, accepted, partial_spinbox, sigma_spinbox>>

\* ... and after it: the thread is built from the window's fields and spin
\* boxes as they are now, connected, started and appended
EndProcess ==
    /\ stack # <<>> /\ stack[Len(stack)].op = "process"
    /\ stack' = SubSeq(stack, 1, Len(stack) - 1)
    /\ processing_threads' = Append(processing_threads,
          [original_image |-> current_image, image |-> current_image,
           kspace |-> current_kspace, processing_type |-> stack[Len(stack)].type,
           partial_fraction |-> OrDefault(QNorm(partial_spinbox, 100), PARTIAL_KSpace_FRACTION),
           sigma_fraction |-> OrDefault(QNorm(sigma_spinbox, 1000), LOWPASS_SIGMA_FRACTION),
           running |-> TRUE, terminated |-> FALSE])
    /\ UNCHANGED <<pc, kspace, transformVars, filterVars, callVars, metricVars, pipeVars,
                   current_image, current_kspace, result_raw, emitted, signals,
                   reconstructions, progress_bar, display, accepted, partial_spinbox,
                   sigma_spinbox>>

\* ProcessingThread.run to its end: finished is queued for the main thread
Finish(i) ==
    /\ i \in DOMAIN processing_threads
    /\ processing_threads[i].running
    /\ signals' = Append(signals, [signal |-> "finished", thread |-> i,
                                   result |-> ResultOf(processing_threads[i])])
    /\ processing_threads' = [processing_threads EXCEPT ![i].running = FALSE]
    /\ UNCHANGED <<pc, kspace, transformVars, filterVars, callVars, metricVars, pipeVars,
                   current_image, current_kspace, result_raw, emitted, reconstructions,
                   windowVars>>

\* on_processing_finished(result)
on_processing_finished(result) ==
    /\ reconstructions' =
          [ty \in DOMAIN reconstructions \cup {result.type} |->
              IF ty = result.type THEN result.image ELSE reconstructions[ty]]
    /\ display' = [title |-> DisplayName(result.type),
                   image |-> {result.image},
                   diff |-> {<<current_image, result.image>>},
                   metrics |-> {result}]
    /\ progress_bar' = FALSE
    /\ pc' = pc

\* the main thread takes the next queued event: a worker's signal, or the
\* Quit that closing the last window posted
DeliverNext ==
    /\ pc = "window"
    /\ signals # <<>>
    /\ signals' = Tail(signals)
    /\ IF Head(signals).signal = "quit"
       THEN pc' = "exited" /\ UNCHANGED <<reconstructions, display, progress_bar>>
       ELSE on_processing_finished(Head(signals).result)
    /\ UNCHANGED <<kspace, transformVars, filterVars, callVars, metricVars, pipeVars,
                   current_image, current_kspace, result_raw, emitted, processing_threads,
                   stack, accepted, partial_spinbox, sigma_spinbox>>

\* closeEvent: terminate and wait for each running thread, accept; the
\* application posts Quit behind the events already queued
closeEvent ==
    /\ pc = "window" /\ ~accepted
    /\ processing_threads' =
          [i \in DOMAIN processing_threads |->
              IF processing_threads[i].running
              THEN [processing_threads[i] EXCEPT !.running = FALSE, !.terminated = TRUE]
              ELSE processing_threads[i]]
    /\ accepted' = TRUE
    /\ signals' = Append(signals, [signal |-> "quit", thread |-> 0, result |-> <<>>])
    /\ UNCHANGED <<pc, kspace, transformVars, filterVars, callVars, metricVars, pipeVars,
                   current_image, current_kspace, result_raw, emitted, reconstructions,
                   stack, progress_bar, display, partial_spinbox, sigma_spinbox>>

NextWindow ==
    \/ \E spin \in SpinInputs : SetSpin(spin)
    \/ BeginLoad
    \/ EndLoad
    \/ \E type \in ProcessingTypes : BeginProcess(type)
    \/ EndProcess
    \/ \E i \in 1 .. MaxRequests : Finish(i)
    \/ DeliverNext
    \/ closeEvent

SpecWindow == InitWindow /\ [][NextWindow]_vars

Running == {i \in DOMAIN processing_threads : processing_threads[i].running}

\* closeEvent leaves no thread running
C21_CloseStep == (accepted' /\ ~accepted) => \A i \in DOMAIN processing_threads' :
                                                 ~processing_threads'[i].running
\* once the close is accepted no thread runs
C21_NoneRunningAfter == accepted => Running = {}
\* once the close is accepted the main thread handles no worker signal
C21_NoDeliveryAfter ==
    (accepted /\ signals # <<>> /\ signals' = Tail(signals)) => Head(signals).signal = "quit"

\* C21: closing the window terminates and waits for every running worker
\* before the close is accepted; after the acceptance no worker is running
\* and no worker result is delivered.
C21_CloseCancelsWorkers ==
    /\ []C21_NoneRunningAfter
    /\ [][C21_CloseStep /\ C21_NoDeliveryAfter]_vars

\* C23: whatever the order of loads, requests and completions, a stored,
\* displayed or differenced reconstruction was computed from the image that
\* is loaded now.
C23_ResultsOfCurrentImage ==
    pc = "window" =>
        /\ \A ty \in DOMAIN reconstructions : reconstructions[ty].of = current_kspace
        /\ \A im \in display.image : im.of = current_kspace
        /\ \A d \in display.diff : d[1] = current_image /\ d[2].ref = d[1]

\* every request was made for the loaded image and every worker has finished
\* and been handled
AllHandled ==
    /\ pc = "window" /\ stack = <<>>
    /\ Len(processing_threads) >= 2
    /\ \A i \in DOMAIN processing_threads :
          /\ processing_threads[i].image = current_image
          /\ ~processing_threads[i].running /\ ~processing_threads[i].terminated
    /\ \A j \in DOMAIN signals : signals[j].signal # "finished"

\* C24: with several requests for one image under way at once, when all
\* workers have finished the reconstruction shown, its title and the metrics
\* are those of the request issued last.
C24_LastRequestShown ==
    AllHandled =>
        LET last == ResultOf(processing_threads[Len(processing_threads)])
        IN  /\ display.image = {last.image}
            /\ display.title = DisplayName(last.type)
            /\ display.metrics = {last}

\* C25: the progress bar is visible whenever a worker thread is running.
C25_ProgressWhileRunning ==
    pc = "window" => (Running # {} => progress_bar)

\* the thread a step appends, if any
Started == {processing_threads'[i] : i \in DOMAIN processing_threads' \ DOMAIN processing_threads}

\* a request hands over the spin boxes' values as p / 100 and v / 1000
C30_SpinMapping ==
    [][\A t \in Started :
          /\ t.partial_fraction = QNorm(partial_spinbox, 100)
          /\ t.sigma_fraction = QNorm(sigma_spinbox, 1000)]_vars

\* C30: a request made with the spin boxes as created uses
\* PARTIAL_KSpace_FRACTION and LOWPASS_SIGMA_FRACTION; in general the values
\* p and v of the boxes give the fractions p / 100 and v / 1000.
C30_InitialControlsAreDefaults ==
    [][\A t \in Started :
          /\ t.partial_fraction = QNorm(partial_spinbox, 100)
          /\ t.sigma_fraction = QNorm(sigma_spinbox, 1000)
          /\ <<partial_spinbox, sigma_spinbox>> = InitialSpin =>
                /\ t.partial_fraction = PARTIAL_KSpace_FRACTION
                /\ t.sigma_fraction = LOWPASS_SIGMA_FRACTION]_vars

====
